---- MODULE Spec2Model ----
(***************************************************************************)
(* Family-portfolio analytics core: aggregator, metrics engine, optimizer, *)
(* risk analyzer and scenario simulator.                                   *)
(*                                                                         *)
(* Number representation.  Money is counted in mills (1/1000 of a currency *)
(* unit) before rounding and in cents after round(x, 2).  Percent weights  *)
(* rounded to 2 decimals are counted in basis points (10000 = 100%).       *)
(* Metrics rounded to 4 decimals are counted in 1/10000.  Scores rounded   *)
(* to 2 decimals are counted in hundredths.  round() is round-half-even on *)
(* the exact quotient.  NaN is a distinguished value that every operator   *)
(* treats as Python and numpy treat it.                                    *)
(*                                                                         *)
(* Cost basis, gains and the per-stock metric bundle are carried by the    *)
(* program but read by none of the properties below; they are left out.    *)
(***************************************************************************)
EXTENDS Integers, Sequences, FiniteSets, TLC

VARIABLES
    json_input,     \* the portfolio JSON handed to the core
    market,         \* what the market-data collaborator answers
    portfolio_data, \* result of process_portfolio_data, or None
    call,           \* arguments of a function called on its own, or None
    out,            \* result of the last downstream operation, or None
    session_state,  \* app.py: each browser session's portfolio_data_state
    portfolio_state,        \* app.py globals shared by every session
    charts_state,
    optimization_state,
    risk_state,
    is_configured,          \* PortfolioChat
    conversation_history

\* The process-wide and per-session state of the UI (app.py).
appvars == <<session_state, portfolio_state, charts_state, optimization_state, risk_state>>

\* The chat object (llm/chat.py).
chatvars == <<is_configured, conversation_history>>

vars == <<json_input, market, portfolio_data, call, out, appvars, chatvars>>

None == [kind |-> "None"]

NaN == 0 - 999999999

IsNaN(x) == x = NaN

(***************************************************************************)
(* Bounds of the model.                                                    *)
(***************************************************************************)
MaxMembers == 2

MaxEntries == 2

Symbols == {"RELIANCE", "TCS", "HDFCBANK"}

QtySet == {1, 2}

NameSet == {"Asha", "Ravi"}

MemberId(i) == <<"INV", i>>

\* Quoted price of each symbol in mills (2.504, 1.004, 0.504).
Quote == [s \in Symbols |->
            CASE s = "RELIANCE" -> 2504
              [] s = "TCS"      -> 1004
              [] OTHER          -> 504]

(***************************************************************************)
(* Arithmetic helpers.                                                     *)
(***************************************************************************)
Abs(x) == IF x < 0 THEN 0 - x ELSE x

Min(a, b) == IF b < a THEN b ELSE a

Max(a, b) == IF b > a THEN b ELSE a

RECURSIVE SumSeq(_)
SumSeq(s) == IF s = <<>> THEN 0 ELSE Head(s) + SumSeq(Tail(s))

\* round(n / d) to the nearest integer, ties to even (d > 0).
RoundHalfEven(n, d) ==
    LET q == n \div d
        r == n % d
    IN  IF 2 * r < d THEN q
        ELSE IF 2 * r > d THEN q + 1
        ELSE IF q % 2 = 0 THEN q ELSE q + 1

\* round(x, 2) of an amount in mills, in cents.
RoundCents(mills) == RoundHalfEven(mills, 10)

Range(s) == {s[i] : i \in DOMAIN s}

\* Python min(a, b) on floats: b replaces a only if b < a, so a NaN first
\* argument is returned and a NaN second argument is ignored.
PyMin(a, b) == IF IsNaN(a) THEN a ELSE IF IsNaN(b) THEN a ELSE Min(a, b)

(***************************************************************************)
(* Inputs: validated portfolio JSON documents.  Investor ids are unique;   *)
(* nothing stops a member from listing a symbol in several stock entries,  *)
(* nor two members from sharing a name.  The first member's name is fixed  *)
(* (the names are interchangeable).                                        *)
(***************************************************************************)
Entry == [symbol : Symbols, quantity : QtySet]

Sizes(m, total) == {sz \in [1..m -> 1..total] : SumSeq(sz) <= total}

Start(sz, i) == SumSeq(SubSeq(sz, 1, i - 1))

InputsOf(entries, m, sz) ==
    {[email |-> "family@example.com",
      investor |-> [i \in 1..m |->
          [id |-> MemberId(i), name |-> nm[i],
           stocks |-> SubSeq(flat, Start(sz, i) + 1, Start(sz, i) + sz[i])]]]
     : flat \in [1..SumSeq(sz) -> entries],
       nm \in {f \in [1..m -> NameSet] : f[1] = "Asha"}}

InputsOver(entries, maxMembers, maxEntries) ==
    UNION {UNION {InputsOf(entries, m, sz) : sz \in Sizes(m, maxEntries)}
           : m \in 1..maxMembers}

PortfolioInputs(maxMembers, maxEntries) == InputsOver(Entry, maxMembers, maxEntries)

(***************************************************************************)
(* The market-data collaborator.  price[s] = 0 stands for "no price";      *)
(* hist is the set of symbols whose history resolves; volatility,          *)
(* expected_return, sharpe_ratio and beta are what the return statistics   *)
(* of a portfolio with usable weights come to; corr is the pairwise        *)
(* correlation of any two symbols with history (hundredths, or NaN).       *)
(***************************************************************************)
Prices(unpricedSets) ==
    {[s \in Symbols |-> IF s \in u THEN 0 ELSE Quote[s]] : u \in unpricedSets}

Markets(unpricedSets, histSets, vols, betas, corrs) ==
    LET all == {[price |-> p, hist |-> h, volatility |-> v, expected_return |-> 1200,
                 sharpe_ratio |-> 2200, beta |-> b, corr |-> c]
                : p \in Prices(unpricedSets), h \in histSets, v \in vols,
                  b \in betas, c \in corrs}
        \* n equally correlated series have correlation >= -1/(n-1)
    IN  {m \in all : IsNaN(m.corr) \/ (Cardinality(m.hist) - 1) * m.corr >= 0 - 100}

(***************************************************************************)
(* MetricsEngine (portfolio/calculator.py).                                *)
(***************************************************************************)
DefaultMetrics ==
    [volatility |-> 0, expected_return |-> 0, sharpe_ratio |-> 0, beta |-> 10000]

NaNMetrics ==
    [volatility |-> NaN, expected_return |-> NaN, sharpe_ratio |-> NaN, beta |-> NaN]

\* weight_map = {h['symbol']: h['weight'] ...}: the last holding of a symbol wins.
WeightMap(holdings, s) ==
    LET idx == {i \in 1..Len(holdings) : holdings[i].symbol = s}
    IN  holdings[CHOOSE i \in idx : \A j \in idx : j <= i].weight

\* holdings: sequence of [symbol, weight]; only the sign of the weight sum is used.
calculate_portfolio_metrics(holdings, mkt) ==
    IF holdings = <<>> \/ mkt.hist = {} THEN DefaultMetrics
    ELSE LET isAvail(h) == h.symbol \in mkt.hist
             available == SelectSeq(holdings, isAvail)
         IN  IF available = <<>> THEN DefaultMetrics
             ELSE IF Len(available) < Len(holdings)
                     /\ SumSeq([i \in 1..Len(available) |->
                                  WeightMap(holdings, available[i].symbol)]) = 0
                  THEN NaNMetrics   \* weights / weights.sum() with a zero sum
                  ELSE [volatility |-> mkt.volatility,
                        expected_return |-> mkt.expected_return,
                        sharpe_ratio |-> mkt.sharpe_ratio,
                        beta |-> mkt.beta]

\* A correlation matrix: n columns and the entries above the diagonal.
calculate_correlation_matrix(symbols, mkt) ==
    LET n == Cardinality(Range(symbols) \cap mkt.hist)
    IN  [n |-> n, upper |-> [i \in 1..((n * (n - 1)) \div 2) |-> mkt.corr]]

\* Lines 228-243 without the single-holding check of lines 228-229.
calculate_diversification_score_NoSingleCheck(holdings_count, correlation_matrix) ==
    IF correlation_matrix.n < 2 THEN 500
    ELSE IF \E i \in DOMAIN correlation_matrix.upper :
                IsNaN(correlation_matrix.upper[i]) THEN 500
    ELSE LET cnt == Len(correlation_matrix.upper)
             total == SumSeq(correlation_matrix.upper)
         IN  RoundHalfEven(25 * Min(holdings_count, 20) * cnt + 500 * cnt - 5 * total,
                           cnt)

calculate_diversification_score(holdings_count, correlation_matrix) ==
    IF holdings_count <= 1 THEN 0
    ELSE IF correlation_matrix.n < 2 THEN 500
    ELSE IF Len(correlation_matrix.upper) = 0 THEN 500
    ELSE IF \E i \in DOMAIN correlation_matrix.upper :
                IsNaN(correlation_matrix.upper[i]) THEN 500
    ELSE LET cnt == Len(correlation_matrix.upper)
             total == SumSeq(correlation_matrix.upper)
             \* holdings_score = min(count / 20, 1) * 5
             \* correlation_score = (1 - avg_correlation) * 5
         IN  RoundHalfEven(25 * Min(holdings_count, 20) * cnt + 500 * cnt - 5 * total,
                           cnt)

(***************************************************************************)
(* Aggregator (portfolio/aggregator.py).                                   *)
(***************************************************************************)
calculate_risk_score(volatility, beta, diversification, overlap_count, total_stocks) ==
    LET ts == IF total_stocks > 0 THEN total_stocks ELSE 1
        K == 10000 * ts     \* one score point
        vol_score == PyMin(IF IsNaN(volatility) THEN NaN ELSE volatility * 10 * ts,
                           3 * K)
        beta_score == PyMin(IF IsNaN(beta) THEN NaN ELSE Abs(beta - 10000) * 2 * ts,
                            2 * K)
        div_score == Max(0, 3 * K - diversification * 30 * ts)
        overlap_score == Min(IF total_stocks > 0 THEN overlap_count * 2 * 10000 ELSE 0,
                             2 * K)
        total_score == IF IsNaN(vol_score) \/ IsNaN(beta_score) THEN NaN
                       ELSE vol_score + beta_score + div_score + overlap_score
    IN  IF IsNaN(total_score) THEN NaN
        ELSE RoundHalfEven(Min(total_score, 10 * K) * 100, K)

\* A missing price replaced by the symbol's quote instead of 0.
CurrentPriceOrQuote(symbol, mkt) ==
    IF mkt.price[symbol] = 0 THEN Quote[symbol] ELSE mkt.price[symbol]

\* current_prices.get(symbol, 0): a missing price values the holding at 0.
CurrentPrice(symbol, mkt) == mkt.price[symbol]

StockValue(stock, mkt) == stock.quantity * CurrentPrice(stock.symbol, mkt)

IndexOf(fh, symbol) ==
    IF \E i \in 1..Len(fh) : fh[i].symbol = symbol
    THEN CHOOSE i \in 1..Len(fh) : fh[i].symbol = symbol
    ELSE 0

\* The family-wide entry overwritten by the latest stock entry of the symbol.
TrackHoldingLastWins(fh, symbol, quantity, value, member_name) ==
    LET i == IndexOf(fh, symbol)
        base == IF i = 0
                THEN Append(fh, [symbol |-> symbol, quantity |-> 0, value |-> 0,
                                 owners |-> <<>>])
                ELSE fh
        j == IF i = 0 THEN Len(base) ELSE i
    IN  [base EXCEPT ![j] = [symbol |-> symbol,
                             quantity |-> quantity,
                             value |-> value,
                             owners |-> Append(@.owners, member_name)]]

\* Lines 90-101: create the family-wide entry on first sight, accumulate,
\* and append the member's name to the owners.
TrackHolding(fh, symbol, quantity, value, member_name) ==
    LET i == IndexOf(fh, symbol)
        base == IF i = 0
                THEN Append(fh, [symbol |-> symbol, quantity |-> 0, value |-> 0,
                                 owners |-> <<>>])
                ELSE fh
        j == IF i = 0 THEN Len(base) ELSE i
    IN  [base EXCEPT ![j] = [symbol |-> symbol,
                             quantity |-> @.quantity + quantity,
                             value |-> @.value + value,
                             owners |-> Append(@.owners, member_name)]]

RECURSIVE TrackStocks(_, _, _, _)
TrackStocks(fh, stocks, member_name, mkt) ==
    IF stocks = <<>> THEN fh
    ELSE TrackStocks(TrackHolding(fh, Head(stocks).symbol, Head(stocks).quantity,
                                  StockValue(Head(stocks), mkt), member_name),
                     Tail(stocks), member_name, mkt)

RECURSIVE TrackInvestors(_, _, _)
TrackInvestors(fh, investors, mkt) ==
    IF investors = <<>> THEN fh
    ELSE TrackInvestors(TrackStocks(fh, Head(investors).stocks, Head(investors).name, mkt),
                        Tail(investors), mkt)

MemberTotalValue(investor, mkt) ==
    SumSeq([k \in 1..Len(investor.stocks) |-> StockValue(investor.stocks[k], mkt)])

\* Line 122: round(holding['value'] / member_total_value * 100, 2), where
\* holding['value'] is already rounded to cents and the total is not.
HoldingWeight(value_cents, member_total_value) ==
    IF member_total_value > 0
    THEN RoundHalfEven(value_cents * 100000, member_total_value)
    ELSE 0

MemberData(investor, mkt) ==
    LET stocks == investor.stocks
        member_total_value == MemberTotalValue(investor, mkt)
        member_holdings ==
            [k \in 1..Len(stocks) |->
                [symbol |-> stocks[k].symbol,
                 quantity |-> stocks[k].quantity,
                 current_price |-> RoundCents(CurrentPrice(stocks[k].symbol, mkt)),
                 value |-> RoundCents(StockValue(stocks[k], mkt)),
                 weight |-> HoldingWeight(RoundCents(StockValue(stocks[k], mkt)),
                                          member_total_value)]]
        member_metrics == calculate_portfolio_metrics(member_holdings, mkt)
        member_symbols == [k \in 1..Len(stocks) |-> stocks[k].symbol]
        corr_matrix == calculate_correlation_matrix(member_symbols, mkt)
    IN  [id |-> investor.id,
         name |-> investor.name,
         value |-> RoundCents(member_total_value),
         holdings_count |-> Len(member_holdings),
         holdings |-> member_holdings,
         metrics |-> [volatility |-> member_metrics.volatility,
                      expected_return |-> member_metrics.expected_return,
                      sharpe_ratio |-> member_metrics.sharpe_ratio,
                      beta |-> member_metrics.beta,
                      diversification_score |->
                          calculate_diversification_score(Len(member_holdings),
                                                          corr_matrix)]]

\* Lines 160-165: the symbols whose owners list has more than one element.
OverlappingStocks(fh) ==
    LET several(d) == Len(d.owners) > 1
        sel == SelectSeq(fh, several)
    IN  [i \in 1..Len(sel) |-> [symbol |-> sel[i].symbol, owners |-> sel[i].owners]]

FamilyWeight(value, family_total_value) ==
    IF family_total_value > 0 THEN RoundHalfEven(value * 10000, family_total_value)
    ELSE 0

process_portfolio_data(input, mkt) ==
    LET investors == input.investor
        members_data == [i \in 1..Len(investors) |-> MemberData(investors[i], mkt)]
        family_total_value ==
            SumSeq([i \in 1..Len(investors) |-> MemberTotalValue(investors[i], mkt)])
        family_holdings == TrackInvestors(<<>>, investors, mkt)
        overlapping_stocks == OverlappingStocks(family_holdings)
        \* weight = value / family_total_value, kept as its numerator
        all_family_holdings ==
            [i \in 1..Len(family_holdings) |->
                [symbol |-> family_holdings[i].symbol,
                 weight |-> IF family_total_value > 0 THEN family_holdings[i].value
                            ELSE 0]]
        family_metrics == calculate_portfolio_metrics(all_family_holdings, mkt)
        family_symbols == [i \in 1..Len(family_holdings) |-> family_holdings[i].symbol]
        family_diversification ==
            calculate_diversification_score(
                Len(family_symbols), calculate_correlation_matrix(family_symbols, mkt))
        risk_score == calculate_risk_score(family_metrics.volatility,
                                           family_metrics.beta,
                                           family_diversification,
                                           Len(overlapping_stocks),
                                           Len(family_symbols))
    IN  [kind |-> "FamilyPortfolio",
         family |-> [email |-> input.email,
                     total_value |-> RoundCents(family_total_value),
                     member_count |-> Len(members_data),
                     total_stocks |-> Len(family_symbols),
                     unique_stocks |-> Len(family_symbols),
                     overlapping_stocks |-> Len(overlapping_stocks),
                     risk_score |-> risk_score,
                     metrics |-> [volatility |-> family_metrics.volatility,
                                  expected_return |-> family_metrics.expected_return,
                                  sharpe_ratio |-> family_metrics.sharpe_ratio,
                                  beta |-> family_metrics.beta,
                                  diversification_score |-> family_diversification]],
         members |-> members_data,
         overlaps |-> overlapping_stocks,
         family_holdings |->
             [i \in 1..Len(family_holdings) |->
                 [symbol |-> family_holdings[i].symbol,
                  quantity |-> family_holdings[i].quantity,
                  value |-> RoundCents(family_holdings[i].value),
                  weight |-> FamilyWeight(family_holdings[i].value, family_total_value),
                  owners |-> family_holdings[i].owners]]]

(***************************************************************************)
(* Scenario simulator (portfolio/risk_analyzer.py).  A stock_changes dict  *)
(* is a function from the symbols it names to a percentage.                *)
(***************************************************************************)
EmptyDict == [s \in {} |-> 0]

DictGet(d, k, default) == IF k \in DOMAIN d THEN d[k] ELSE default

TechSelloff == [s \in {"TCS", "INFY", "WIPRO", "TECH"} |-> 0 - 15]

BankingRally ==
    [s \in {"HDFCBANK", "ICICIBANK", "AXISBANK", "SBIN"} |->
        CASE s = "HDFCBANK"  -> 20
          [] s = "ICICIBANK" -> 18
          [] s = "AXISBANK"  -> 22
          [] OTHER           -> 25]

get_default_scenarios ==
    << [name |-> "Market Crash (-20%)", stock_changes |-> EmptyDict],
       [name |-> "Market Rally (+15%)", stock_changes |-> EmptyDict],
       [name |-> "Tech Selloff", stock_changes |-> TechSelloff],
       [name |-> "Banking Rally", stock_changes |-> BankingRally] >>

ScenarioNames == {get_default_scenarios[i].name : i \in DOMAIN get_default_scenarios}

apply_scenario_to_all(scenario, all_symbols, default_change) ==
    IF DOMAIN scenario.stock_changes = {}
    THEN [scenario EXCEPT !.stock_changes = [s \in Range(all_symbols) |-> default_change]]
    ELSE [scenario EXCEPT !.stock_changes =
             [s \in DOMAIN scenario.stock_changes \cup Range(all_symbols) |->
                 IF s \in DOMAIN scenario.stock_changes
                 THEN scenario.stock_changes[s] ELSE 0]]

\* One scenario against a portfolio.  scenario_value and value_change are
\* kept times 100 (cents * percent); pct_change is the fraction num / den.
SimulateOne(portfolio, scenario) ==
    LET fh == portfolio.family_holdings
        scenario_value100 ==
            SumSeq([i \in 1..Len(fh) |->
                fh[i].value * (100 + DictGet(scenario.stock_changes, fh[i].symbol, 0))])
        current_value == portfolio.family.total_value
        value_change100 == scenario_value100 - 100 * current_value
    IN  [scenario |-> scenario.name,
         current_value |-> current_value,
         scenario_value100 |-> scenario_value100,
         value_change100 |-> value_change100,
         pct_change |-> IF current_value > 0
                        THEN [num |-> value_change100, den |-> current_value]
                        ELSE [num |-> 0, den |-> 1]]

simulate_scenarios(portfolio, scenarios) ==
    [i \in 1..Len(scenarios) |-> SimulateOne(portfolio, scenarios[i])]

FamilySymbols(portfolio) ==
    [i \in 1..Len(portfolio.family_holdings) |-> portfolio.family_holdings[i].symbol]

\* app.py run_scenario_analysis: the default change per scenario name.
ScenarioMap(name) ==
    CASE name = "Market Crash (-20%)" -> 0 - 20
      [] name = "Market Rally (+15%)" -> 15
      [] OTHER                        -> 0

run_scenario_analysis(portfolio, scenario_name) ==
    LET all_symbols == FamilySymbols(portfolio)
        scenarios == get_default_scenarios
        default_change == ScenarioMap(scenario_name)
        i == CHOOSE k \in DOMAIN scenarios : scenarios[k].name = scenario_name
        scenario == apply_scenario_to_all(scenarios[i], all_symbols, default_change)
    IN  [kind |-> "scenario", entry |-> "ui", scenario |-> scenario,
         results |-> simulate_scenarios(portfolio, <<scenario>>)]

\* mcp_server.py run_scenario: analyses the JSON afresh, picks the named
\* default scenario (the first one if the name is unknown) and simulates it.
mcp_run_scenario(input, mkt, scenario_name) ==
    LET portfolio == process_portfolio_data(input, mkt)
        scenarios == get_default_scenarios
        selected == IF \E k \in DOMAIN scenarios : scenarios[k].name = scenario_name
                    THEN scenarios[CHOOSE k \in DOMAIN scenarios :
                                       scenarios[k].name = scenario_name]
                    ELSE scenarios[1]
    IN  [kind |-> "scenario", entry |-> "mcp", scenario |-> selected,
         results |-> simulate_scenarios(portfolio, <<selected>>)]

\* test_phase3.py step 6: the first default scenario, simulated as is.
test_phase3_scenario(portfolio) ==
    LET scenarios == get_default_scenarios
    IN  [kind |-> "scenario", entry |-> "test", scenario |-> scenarios[1],
         results |-> simulate_scenarios(portfolio, SubSeq(scenarios, 1, 1))]

(***************************************************************************)
(* State machine.                                                          *)
(***************************************************************************)
\* app.py lines 68-72: the globals start as empty dicts; a session has
\* analysed nothing.
Sessions == {1, 2}

EmptyState == [k \in {} |-> None]

AppStarted ==
    /\ session_state = [u \in Sessions |-> None]
    /\ portfolio_state = EmptyState
    /\ charts_state = EmptyState
    /\ optimization_state = EmptyState
    /\ risk_state = EmptyState

\* chat.py lines 32-46: PortfolioChat.__init__.
ChatConstructed(configured) ==
    /\ is_configured = configured
    /\ conversation_history = <<>>

InitWith(inputs, markets) ==
    /\ json_input \in inputs
    /\ market \in markets
    /\ portfolio_data = None
    /\ call = None
    /\ out = None
    /\ AppStarted
    /\ ChatConstructed(FALSE)

\* The UI analyses the submitted JSON and keeps the result.
ProcessPortfolioData ==
    /\ call = None
    /\ portfolio_data = None
    /\ portfolio_data' = process_portfolio_data(json_input, market)
    /\ UNCHANGED <<json_input, market, call, out, appvars, chatvars>>

RunScenarioAnalysis ==
    /\ portfolio_data # None
    /\ out = None
    /\ \E name \in ScenarioNames :
          out' = run_scenario_analysis(portfolio_data, name)
    /\ UNCHANGED <<json_input, market, portfolio_data, call, appvars, chatvars>>

McpRunScenario ==
    /\ out = None
    /\ \E name \in ScenarioNames :
          out' = mcp_run_scenario(json_input, market, name)
    /\ UNCHANGED <<json_input, market, portfolio_data, call, appvars, chatvars>>

TestPhase3Scenario ==
    /\ portfolio_data # None
    /\ out = None
    /\ out' = test_phase3_scenario(portfolio_data)
    /\ UNCHANGED <<json_input, market, portfolio_data, call, appvars, chatvars>>

\* simulate_scenarios called with a scenario that shocks every held symbol alike.
UniformShocks == {0 - 20, 0, 15}

SimulateUniform ==
    /\ portfolio_data # None
    /\ out = None
    /\ \E c \in UniformShocks :
          LET scenario == [name |-> "Uniform",
                           stock_changes |->
                               [s \in Range(FamilySymbols(portfolio_data)) |-> c]]
          IN  out' = [kind |-> "scenario", entry |-> "direct", scenario |-> scenario,
                      results |-> simulate_scenarios(portfolio_data, <<scenario>>)]
    /\ UNCHANGED <<json_input, market, portfolio_data, call, appvars, chatvars>>

Init ==
    InitWith(PortfolioInputs(MaxMembers, MaxEntries),
             Markets(SUBSET Symbols, {Symbols}, {2500}, {11000}, {30}))

Next ==
    \/ ProcessPortfolioData
    \/ RunScenarioAnalysis
    \/ McpRunScenario
    \/ TestPhase3Scenario
    \/ SimulateUniform

Spec == Init /\ [][Next]_vars

(***************************************************************************)
(* Properties of the aggregator and the scenario simulator (Spec).         *)
(***************************************************************************)
Analysed == portfolio_data # None

\* The members (by position in the input) that list symbol s.
MembersHolding(s) ==
    {i \in 1..Len(json_input.investor) :
        \E k \in 1..Len(json_input.investor[i].stocks) :
            json_input.investor[i].stocks[k].symbol = s}

OverlapKeys == {portfolio_data.overlaps[i].symbol : i \in DOMAIN portfolio_data.overlaps}

\* C1: after process_portfolio_data a symbol is a key of the overlap map if
\* and only if at least two distinct members list it.
C1_OverlapIffTwoMembers ==
    Analysed =>
        \A s \in Symbols : (s \in OverlapKeys) <=> (Cardinality(MembersHolding(s)) >= 2)

NoDuplicates(seq) == \A i, j \in DOMAIN seq : i # j => seq[i] # seq[j]

\* C2: every family_holdings entry has a non-empty owners list without
\* duplicates.
C2_OwnersNonEmptyDuplicateFree ==
    Analysed =>
        \A i \in DOMAIN portfolio_data.family_holdings :
            /\ portfolio_data.family_holdings[i].owners # <<>>
            /\ NoDuplicates(portfolio_data.family_holdings[i].owners)

MemberWeights(i) ==
    [k \in 1..Len(portfolio_data.members[i].holdings) |->
        portfolio_data.members[i].holdings[k].weight]

\* C3: a member whose total value is positive has holding weights that sum
\* to 100% (10000 basis points) up to the rounding of each weight to a basis
\* point (floating-point noise is far below that); a member whose total
\* value is 0 has only zero weights.
C3_MemberWeightsSumToOne ==
    Analysed =>
        \A i \in DOMAIN portfolio_data.members :
            LET total == MemberTotalValue(json_input.investor[i], market)
            IN  /\ total > 0 =>
                      Abs(SumSeq(MemberWeights(i)) - 10000) <= Len(MemberWeights(i))
                /\ total = 0 => \A k \in DOMAIN MemberWeights(i) : MemberWeights(i)[k] = 0

ScenarioRun == out.kind = "scenario"

PctChangeIs(result, pct) == result.pct_change.num = pct * result.pct_change.den

\* C5: through every entry point that runs a default scenario, Market Crash
\* reports pct_change = -20 and Market Rally reports pct_change = +15 on a
\* portfolio whose total value is positive.
C5_DefaultScenarioShocksEverySymbol ==
    (ScenarioRun /\ out.entry \in {"ui", "mcp", "test"}
       /\ out.results[1].current_value > 0) =>
        /\ out.scenario.name = "Market Crash (-20%)" => PctChangeIs(out.results[1], 0 - 20)
        /\ out.scenario.name = "Market Rally (+15%)" => PctChangeIs(out.results[1], 15)

\* The scenario of the last run names every held symbol with a shock of 0%.
ZeroShockRun ==
    /\ ScenarioRun
    /\ Analysed
    /\ \A s \in Range(FamilySymbols(portfolio_data)) :
          s \in DOMAIN out.scenario.stock_changes /\ out.scenario.stock_changes[s] = 0

\* C6: a scenario whose shock is 0% for every held symbol leaves
\* scenario_value equal to current_value, value_change = 0 and pct_change = 0.
C6_ZeroShockRoundTrip ==
    (ZeroShockRun /\ out.entry \in {"ui", "direct"}) =>
        /\ out.results[1].scenario_value100 = 100 * out.results[1].current_value
        /\ out.results[1].value_change100 = 0
        /\ out.results[1].pct_change.num = 0

(***************************************************************************)
(* Optimizer (portfolio/optimizer.py).  Weights returned by the solver are *)
(* multiples of 1 / WeightScale; a weight record carries its denominator.  *)
(***************************************************************************)
WeightScale == 4

OptMaxEntries == 3

Raise == [kind |-> "Raise"]

\* Columns of a pivoted return table come out in sorted order.
SymbolOrder == <<"HDFCBANK", "RELIANCE", "TCS">>

\* Annualised mean return of each symbol, in 1/10000.
Mu == [s \in Symbols |->
         CASE s = "RELIANCE" -> 1500
           [] s = "TCS"      -> 1000
           [] OTHER          -> 2000]

get_returns_and_cov(symbols, mkt) ==
    IF Range(symbols) \cap mkt.hist = {} THEN None
    ELSE LET has(s) == s \in Range(symbols) \cap mkt.hist
         IN  [kind |-> "returns", columns |-> SelectSeq(SymbolOrder, has)]

\* np.dot(weights, expected_returns): positional, times the weight denominator.
Dot(x, columns) == SumSeq([i \in 1..Len(x) |-> x[i] * Mu[columns[i]]])

\* bounds = tuple((0, 1) for _ in range(n_assets))
WeightBoundsShort == [lo |-> 0 - WeightScale, hi |-> WeightScale]

WeightBounds == [lo |-> 0, hi |-> WeightScale]

\* scipy.optimize.minimize(..., method='SLSQP', bounds, constraints): what the
\* solver may hand back.  A successful solve satisfies the bounds and the
\* sum-to-one constraint it was given; a failed one hands back its last
\* iterate, which need not.  A NaN starting point never converges.
Minimize(n, bounds, x0_nan) ==
    LET feasible == {x \in [1..n -> bounds.lo..bounds.hi] : SumSeq(x) = WeightScale}
        failed == {[success |-> FALSE, x |-> x] : x \in [1..n -> {0, WeightScale}]}
    IN  IF x0_nan THEN failed
        ELSE {[success |-> TRUE, x |-> x] : x \in feasible} \cup failed

ZipWeights(symbols, x) == [i \in 1..Len(symbols) |-> [symbol |-> symbols[i], weight |-> x[i]]]

\* Lines 106-117: no result unless the solver reports success.
OptimizeReturnUnchecked(symbols, rc, r) ==
    [kind |-> "Optimized", weights |-> ZipWeights(symbols, r.x), den |-> WeightScale,
     expected_return |-> Dot(r.x, rc.columns)]

OptimizeReturn(symbols, rc, r) ==
    IF ~r.success THEN None
    ELSE [kind |-> "Optimized", weights |-> ZipWeights(symbols, r.x), den |-> WeightScale,
          expected_return |-> Dot(r.x, rc.columns)]

\* Every value optimize_portfolio can return (or Raise) for these arguments.
\* current_weights: sequence of [symbol, weight], one entry per symbol.
optimize_portfolio(symbols, current_weights, method, mkt) ==
    LET rc == get_returns_and_cov(symbols, mkt)
        n_assets == Len(symbols)
        x0_nan == SumSeq([i \in 1..Len(current_weights) |-> current_weights[i].weight]) = 0
    IN  IF rc = None THEN {None}
        ELSE IF method = "equal_weight"
        THEN IF Len(rc.columns) # n_assets THEN {Raise}     \* shapes not aligned
             ELSE {[kind |-> "Optimized",
                    weights |-> ZipWeights(symbols, [i \in 1..n_assets |-> 1]),
                    den |-> n_assets,
                    expected_return |-> Dot([i \in 1..n_assets |-> 1], rc.columns)]}
        ELSE IF method \notin {"max_sharpe", "target_return", "min_volatility"} THEN {None}
        ELSE IF Len(rc.columns) # n_assets THEN {Raise}     \* shapes not aligned
        ELSE {OptimizeReturn(symbols, rc, r) : r \in Minimize(n_assets, WeightBounds, x0_nan)}

\* Line 183: the 1% dead-band, on value_diff * den.
ExceedsThresholdOrEqual(value_diff, den, total_value) ==
    Abs(value_diff) * 100 >= total_value * den

ExceedsThreshold(value_diff, den, total_value) ==
    Abs(value_diff) * 100 > total_value * den

TradeFor(current_holdings, tw, den, total_value) ==
    LET idx == {i \in 1..Len(current_holdings) : current_holdings[i].symbol = tw.symbol}
        held == idx # {}
        h == current_holdings[CHOOSE i \in idx : \A j \in idx : i <= j]
        current_value == IF held THEN h.value ELSE 0
        current_price == IF held THEN h.current_price ELSE 0
        value_diff == total_value * tw.weight - current_value * den   \* times den
        current_weight == IF total_value > 0
                          THEN [num |-> current_value * 100, den |-> total_value]
                          ELSE [num |-> 0, den |-> 1]
    IN  [emit |-> ExceedsThreshold(value_diff, den, total_value),
         trade |-> [symbol |-> tw.symbol,
                    action |-> IF value_diff > 0 THEN "BUY" ELSE "SELL",
                    quantity |-> IF current_price > 0
                                 THEN [num |-> Abs(value_diff), den |-> den * current_price]
                                 ELSE [num |-> 0, den |-> 1],
                    value |-> Abs(value_diff),
                    current_weight |-> current_weight,
                    target_weight |-> [num |-> tw.weight * 100, den |-> den],
                    weight_change |->
                        [num |-> tw.weight * 100 * current_weight.den
                                   - current_weight.num * den,
                         den |-> den * current_weight.den]]]

\* Insert t behind every trade whose value is at least t's (stable, descending).
RECURSIVE InsertDescending(_, _)
InsertDescending(sorted, t) ==
    IF sorted = <<>> THEN <<t>>
    ELSE IF Head(sorted).value >= t.value
         THEN <<Head(sorted)>> \o InsertDescending(Tail(sorted), t)
         ELSE <<t>> \o sorted

RECURSIVE SortByValue(_, _)
SortByValue(done, rest) ==
    IF rest = <<>> THEN done
    ELSE SortByValue(InsertDescending(done, Head(rest)), Tail(rest))

\* Lines 201-202: trades.sort(key=lambda x: abs(x['value']), reverse=True)
SortTradesNot(trades) == trades

SortTrades(trades) == SortByValue(<<>>, trades)

calculate_rebalancing_trades(current_holdings, target_weights, den, total_value) ==
    LET all == [i \in 1..Len(target_weights) |->
                   TradeFor(current_holdings, target_weights[i], den, total_value)]
        emitted(e) == e.emit
        kept == SelectSeq(all, emitted)
    IN  SortTrades([i \in 1..Len(kept) |-> kept[i].trade])

\* Lines 233-252: all members' holdings merged by symbol.
MergeHolding(merged, h) ==
    LET i == IndexOf(merged, h.symbol)
        base == IF i = 0
                THEN Append(merged, [symbol |-> h.symbol, quantity |-> 0,
                                     current_price |-> h.current_price, value |-> 0])
                ELSE merged
        j == IF i = 0 THEN Len(base) ELSE i
    IN  [base EXCEPT ![j].quantity = @ + h.quantity, ![j].value = @ + h.value]

RECURSIVE MergeHoldings(_, _)
MergeHoldings(merged, holdings) ==
    IF holdings = <<>> THEN merged
    ELSE MergeHoldings(MergeHolding(merged, Head(holdings)), Tail(holdings))

RECURSIVE AllHoldings(_)
AllHoldings(members) ==
    IF members = <<>> THEN <<>>
    ELSE Head(members).holdings \o AllHoldings(Tail(members))

\* What optimize_family_portfolio returns once optimize_portfolio returned opt.
FamilyResult(portfolio, opt, mkt) ==
    IF opt = None THEN None
    ELSE IF opt = Raise THEN Raise
    ELSE LET all_symbols == FamilySymbols(portfolio)
             rc == get_returns_and_cov(all_symbols, mkt)
             fh == portfolio.family_holdings
             current_weights == [i \in 1..Len(fh) |->
                                    [symbol |-> fh[i].symbol, weight |-> fh[i].weight]]
             current_return == Dot([i \in 1..Len(fh) |-> fh[i].weight], rc.columns)
             merged_holdings == MergeHoldings(<<>>, AllHoldings(portfolio.members))
         IN  [kind |-> "OptimizationResult",
              current |-> [expected_return |-> current_return,
                           weights |-> current_weights],
              optimized |-> opt,
              trades |-> calculate_rebalancing_trades(merged_holdings, opt.weights,
                                                      opt.den,
                                                      portfolio.family.total_value)]

optimize_family_portfolio(portfolio, method, mkt) ==
    LET all_symbols == FamilySymbols(portfolio)
        fh == portfolio.family_holdings
        current_weights == [i \in 1..Len(fh) |->
                               [symbol |-> fh[i].symbol, weight |-> fh[i].weight]]
    IN  {[kind |-> "optimization", method |-> method, optimized |-> opt,
          result |-> FamilyResult(portfolio, opt, mkt)]
         : opt \in optimize_portfolio(all_symbols, current_weights, method, mkt)}

Methods == {"max_sharpe", "min_volatility", "equal_weight", "momentum"}

OptimizeFamilyPortfolio ==
    /\ portfolio_data # None
    /\ out = None
    /\ \E method \in Methods :
          out' \in optimize_family_portfolio(portfolio_data, method, market)
    /\ UNCHANGED <<json_input, market, portfolio_data, call, appvars, chatvars>>

OptInputs ==
    InputsOver({e \in Entry : e.quantity = 1}, MaxMembers, OptMaxEntries)

InitOpt ==
    InitWith(OptInputs,
             Markets({{}, Symbols}, {{}, {"TCS"}, Symbols}, {2500}, {11000}, {30}))

NextOpt ==
    \/ ProcessPortfolioData
    \/ OptimizeFamilyPortfolio

SpecOpt == InitOpt /\ [][NextOpt]_vars

(***************************************************************************)
(* Properties of the optimizer (SpecOpt).                                  *)
(***************************************************************************)
OptimizationRun == out.kind = "optimization"

OptimizedReturned == OptimizationRun /\ out.optimized.kind = "Optimized"

FamilyOptimized == OptimizationRun /\ out.result.kind = "OptimizationResult"

\* C4: whenever optimize_portfolio returns a result for min_volatility or
\* max_sharpe, there is exactly one weight per requested symbol, every weight
\* lies in [0, 1] and the weights sum to 1.
C4_OptimizedWeightsValid ==
    (OptimizedReturned /\ out.method \in {"min_volatility", "max_sharpe"}) =>
        LET w == out.optimized.weights
            den == out.optimized.den
            symbols == FamilySymbols(portfolio_data)
        IN  /\ Len(w) = Len(symbols)
            /\ \A s \in Range(symbols) :
                  Cardinality({i \in DOMAIN w : w[i].symbol = s}) = 1
            /\ \A i \in DOMAIN w : 0 <= w[i].weight /\ w[i].weight <= den
            /\ SumSeq([i \in DOMAIN w |-> w[i].weight]) = den

\* The solver was run on three symbols and put one of them at weight 0 and
\* another strictly inside (0, 1).
C4_Witness ==
    /\ OptimizedReturned
    /\ out.method = "max_sharpe"
    /\ Len(out.optimized.weights) = 3
    /\ \E i, j \in DOMAIN out.optimized.weights :
          /\ out.optimized.weights[i].weight = 0
          /\ 0 < out.optimized.weights[j].weight
          /\ out.optimized.weights[j].weight < out.optimized.den

\* Current value of a symbol as the trade generator sees it: the sum of the
\* members' holding values (cents).
CurrentValueOf(s) ==
    LET hs == AllHoldings(portfolio_data.members)
    IN  SumSeq([i \in 1..Len(hs) |-> IF hs[i].symbol = s THEN hs[i].value ELSE 0])

\* (target_value - current_value) * den for the k-th target weight.
TargetDiff(k) ==
    portfolio_data.family.total_value * out.optimized.weights[k].weight
      - CurrentValueOf(out.optimized.weights[k].symbol) * out.optimized.den

TradesOf(s) == {i \in DOMAIN out.result.trades : out.result.trades[i].symbol = s}

\* C7: a trade is emitted for a target symbol only if |target_value -
\* current_value| is strictly greater than 1% of total_value (so a difference
\* of at most 1% produces no trade), and with total_value = 0 the trade list
\* is empty.
C7_DeadBand ==
    FamilyOptimized =>
        LET total == portfolio_data.family.total_value
            den == out.optimized.den
        IN  /\ \A k \in DOMAIN out.optimized.weights :
                  TradesOf(out.optimized.weights[k].symbol) # {}
                      => Abs(TargetDiff(k)) * 100 > total * den
            /\ \A i \in DOMAIN out.result.trades :
                  \E k \in DOMAIN out.optimized.weights :
                      /\ out.optimized.weights[k].symbol = out.result.trades[i].symbol
                      /\ out.result.trades[i].value = Abs(TargetDiff(k))
            /\ total = 0 => out.result.trades = <<>>

\* One target symbol sits inside the dead-band with a non-zero difference and
\* gets no trade.
C7_Witness ==
    /\ FamilyOptimized
    /\ portfolio_data.family.total_value > 0
    /\ \E k \in DOMAIN out.optimized.weights :
          /\ TargetDiff(k) # 0
          /\ Abs(TargetDiff(k)) * 100
                <= portfolio_data.family.total_value * out.optimized.den
          /\ TradesOf(out.optimized.weights[k].symbol) = {}

\* C8: the trade list is ordered by non-increasing trade value, so its first
\* k trades are the k largest rebalances, for every k.
C8_TradesSortedDescending ==
    FamilyOptimized =>
        LET trades == out.result.trades
        IN  /\ \A i \in 1..(Len(trades) - 1) : trades[i].value >= trades[i + 1].value
            /\ \A k \in 0..Len(trades) :
                  \A i \in 1..k : \A j \in (k + 1)..Len(trades) :
                      trades[i].value >= trades[j].value

\* Three trades of three different sizes, the largest of them not for the
\* first target symbol.
C8_Witness ==
    /\ FamilyOptimized
    /\ Len(out.result.trades) = 3
    /\ out.result.trades[1].value > out.result.trades[2].value
    /\ out.result.trades[2].value > out.result.trades[3].value
    /\ out.result.trades[1].symbol # out.optimized.weights[1].symbol

(***************************************************************************)
(* The two scores, called on their own and through the aggregator          *)
(* (SpecScore).                                                            *)
(***************************************************************************)
MaxStocks == 3

MaxMatrix == 3

VolSet == {0, 2500, 3000, 5000}

BetaSet == {0 - 5000, 10000, 20000, 35000}

DivSet == {0 - 500, 0, 425, 1000, 1500}

CorrSet == {0 - 100, 0, 100, NaN}

CountSet == {0, 1, 2, 3, 20, 25}

RiskScoreCalls ==
    {[fn |-> "calculate_risk_score", volatility |-> v, beta |-> b,
      diversification |-> d, overlap_count |-> oc, total_stocks |-> ts]
     : v \in VolSet, b \in BetaSet, d \in DivSet,
       oc \in 0..MaxStocks, ts \in 0..MaxStocks}

Matrices ==
    UNION {{[n |-> n, upper |-> u] : u \in [1..((n * (n - 1)) \div 2) -> CorrSet]}
           : n \in 0..MaxMatrix}

DiversificationCalls ==
    {[fn |-> "calculate_diversification_score", holdings_count |-> hc,
      correlation_matrix |-> cm]
     : hc \in CountSet, cm \in Matrices}

SampleInput ==
    [email |-> "family@example.com",
     investor |-> <<[id |-> MemberId(1), name |-> "Asha",
                     stocks |-> <<[symbol |-> "RELIANCE", quantity |-> 1]>>]>>]

SampleMarket ==
    CHOOSE m \in Markets({{}}, {Symbols}, {2500}, {11000}, {30}) : TRUE

ScoreMarkets ==
    Markets({{}, {"TCS"}, Symbols \ {"TCS"}}, {{}, {"TCS"}, Symbols},
            {0, 4000}, {0 - 5000, 10000}, {0 - 100, 30, NaN})

InitScore ==
    \/ /\ call \in {c \in RiskScoreCalls : c.overlap_count <= c.total_stocks}
                \cup DiversificationCalls
       /\ json_input = SampleInput
       /\ market = SampleMarket
       /\ portfolio_data = None
       /\ out = None
       /\ AppStarted
       /\ ChatConstructed(FALSE)
    \/ InitWith(PortfolioInputs(MaxMembers, MaxEntries), ScoreMarkets)

CalculateRiskScore ==
    /\ call # None
    /\ call.fn = "calculate_risk_score"
    /\ out = None
    /\ out' = [kind |-> "risk_score",
               result |-> calculate_risk_score(call.volatility, call.beta,
                                               call.diversification,
                                               call.overlap_count, call.total_stocks)]
    /\ UNCHANGED <<json_input, market, portfolio_data, call, appvars, chatvars>>

CalculateDiversificationScore ==
    /\ call # None
    /\ call.fn = "calculate_diversification_score"
    /\ out = None
    /\ out' = [kind |-> "diversification",
               result |-> calculate_diversification_score(call.holdings_count,
                                                          call.correlation_matrix)]
    /\ UNCHANGED <<json_input, market, portfolio_data, call, appvars, chatvars>>

NextScore ==
    \/ ProcessPortfolioData
    \/ CalculateRiskScore
    \/ CalculateDiversificationScore

SpecScore == InitScore /\ [][NextScore]_vars

InScoreRange(x) == 0 <= x /\ x <= 1000

\* C9: calculate_risk_score returns a value in [0, 10] for every volatility
\* >= 0, every beta, every diversification score and every overlap_count <=
\* total_stocks (total_stocks = 0 included), and so family.risk_score of every
\* process_portfolio_data result lies in [0, 10].
C9_RiskScoreInRange ==
    /\ (out.kind = "risk_score" /\ call.volatility >= 0
          /\ call.overlap_count <= call.total_stocks) => InScoreRange(out.result)
    /\ Analysed => InScoreRange(portfolio_data.family.risk_score)

\* C10: calculate_diversification_score returns a score in [0, 10] for every
\* holdings_count >= 0 and every correlation matrix with entries in [-1, 1].
C10_DiversificationInRange ==
    (/\ out.kind = "diversification"
     /\ call.holdings_count >= 0
     /\ \A i \in DOMAIN call.correlation_matrix.upper :
           /\ ~IsNaN(call.correlation_matrix.upper[i])
           /\ 0 - 100 <= call.correlation_matrix.upper[i]
           /\ call.correlation_matrix.upper[i] <= 100)
        => InScoreRange(out.result)

DiversificationCalled == out.kind = "diversification"

NaNAverage(correlation_matrix) ==
    \E i \in DOMAIN correlation_matrix.upper : IsNaN(correlation_matrix.upper[i])

\* C11: calculate_diversification_score returns 0 whenever holdings_count <= 1,
\* whatever the correlation matrix, and for holdings_count >= 2 returns the
\* neutral default 5 whenever the correlation matrix is empty, has fewer than
\* 2 symbols, or has a NaN average off-diagonal correlation.
C11_DiversificationFallbacks ==
    DiversificationCalled =>
        /\ call.holdings_count <= 1 => out.result = 0
        /\ (call.holdings_count >= 2
              /\ (call.correlation_matrix.n < 2 \/ NaNAverage(call.correlation_matrix)))
               => out.result = 500

\* Two or more holdings and a 3 x 3 matrix with one NaN entry among defined
\* ones got the neutral default.
C11_Witness ==
    /\ DiversificationCalled
    /\ call.holdings_count >= 2
    /\ call.correlation_matrix.n = 3
    /\ NaNAverage(call.correlation_matrix)
    /\ \E i \in DOMAIN call.correlation_matrix.upper :
          ~IsNaN(call.correlation_matrix.upper[i])
    /\ out.result = 500

(***************************************************************************)
(* Risk analyzer (portfolio/risk_analyzer.py).  Daily returns are in basis *)
(* points, a confidence level is a whole percentage; a percentile is kept  *)
(* times 100 and a mean as the fraction num / den (den = 0: the mean of    *)
(* nothing, NaN).  The annual_* fields, the daily ones times sqrt(252),    *)
(* are left out.                                                           *)
(***************************************************************************)
MaxDays == 4

ReturnSet == {0 - 300, 0 - 100, 0, 200}

ConfidenceSet == {50, 90, 95, 99}

RECURSIVE InsertAscending(_, _)
InsertAscending(sorted, r) ==
    IF sorted = <<>> THEN <<r>>
    ELSE IF Head(sorted) <= r
         THEN <<Head(sorted)>> \o InsertAscending(Tail(sorted), r)
         ELSE <<r>> \o sorted

RECURSIVE SortAscending(_, _)
SortAscending(done, rest) ==
    IF rest = <<>> THEN done
    ELSE SortAscending(InsertAscending(done, Head(rest)), Tail(rest))

\* np.percentile(returns, q), linear interpolation between the two order
\* statistics around the position q / 100 * (n - 1); the result times 100.
Percentile(returns, q) ==
    LET a == SortAscending(<<>>, returns)
        pos == q * (Len(a) - 1)
        lo == pos \div 100
        frac == pos % 100
    IN  IF frac = 0 THEN 100 * a[lo + 1]
        ELSE 100 * a[lo + 1] + (a[lo + 2] - a[lo + 1]) * frac

calculate_var(returns, confidence_level) ==
    IF Len(returns) = 0 THEN None
    ELSE [daily_var |-> Percentile(returns, 100 - confidence_level),
          confidence_level |-> confidence_level]

\* returns[returns <= var_threshold]
AtOrAboveThreshold(returns, var_threshold) ==
    LET above(r) == 100 * r >= var_threshold
    IN  SelectSeq(returns, above)

AtOrBelowThreshold(returns, var_threshold) ==
    LET below(r) == 100 * r <= var_threshold
    IN  SelectSeq(returns, below)

calculate_cvar(returns, confidence_level) ==
    IF Len(returns) = 0 THEN None
    ELSE LET var_threshold == Percentile(returns, 100 - confidence_level)
             tail == AtOrBelowThreshold(returns, var_threshold)
         IN  [daily_cvar |-> [num |-> SumSeq(tail), den |-> Len(tail)],
              confidence_level |-> confidence_level]

ReturnSeries == UNION {[1..n -> ReturnSet] : n \in 0..MaxDays}

VarCalls ==
    {[fn |-> "calculate_var", returns |-> r, confidence_level |-> c]
     : r \in ReturnSeries, c \in ConfidenceSet}

\* calculate_var and calculate_cvar on one series, as analyze_portfolio_risk
\* calls them (lines 52-55).
CalculateVarAndCvar ==
    /\ call # None
    /\ call.fn = "calculate_var"
    /\ out = None
    /\ out' = [kind |-> "var_cvar",
               var |-> calculate_var(call.returns, call.confidence_level),
               cvar |-> calculate_cvar(call.returns, call.confidence_level)]
    /\ UNCHANGED <<json_input, market, portfolio_data, call, appvars, chatvars>>

MaxHoldings == 5

\* Family weights as process_portfolio_data reports them: percent times 100.
WeightPctSet == {0, 1000, 2000, 2500, 3000, 5000, 10000}

\* sum([w**2 for w in weights]), in basis points squared.
SquaredSum(weights) == SumSeq(weights) * SumSeq(weights)

SumSquares(weights) == SumSeq([i \in 1..Len(weights) |-> weights[i] * weights[i]])

\* sorted(holdings.items(), key=weight, reverse=True): stable, descending.
RECURSIVE InsertByWeight(_, _)
InsertByWeight(sorted, h) ==
    IF sorted = <<>> THEN <<h>>
    ELSE IF Head(sorted).weight >= h.weight
         THEN <<Head(sorted)>> \o InsertByWeight(Tail(sorted), h)
         ELSE <<h>> \o sorted

RECURSIVE SortByWeight(_, _)
SortByWeight(done, rest) ==
    IF rest = <<>> THEN done
    ELSE SortByWeight(InsertByWeight(done, Head(rest)), Tail(rest))

\* sum of the k largest weights, or of all of them when fewer than k exist.
TopConcentration(sorted_holdings, k) ==
    LET m == Min(k, Len(sorted_holdings))
    IN  SumSeq([i \in 1..m |-> sorted_holdings[i].weight])

\* Lines 145-157, with >= in place of >.
ConcentrationLevelInclusive(top_3_concentration) ==
    IF top_3_concentration >= 7500
    THEN [concentration_level |-> "Very High", risk_rating |-> "High Risk"]
    ELSE IF top_3_concentration >= 5000
    THEN [concentration_level |-> "High", risk_rating |-> "Moderate-High Risk"]
    ELSE IF top_3_concentration >= 3000
    THEN [concentration_level |-> "Moderate", risk_rating |-> "Moderate Risk"]
    ELSE [concentration_level |-> "Low", risk_rating |-> "Low Risk"]

ConcentrationLevel(top_3_concentration) ==
    IF top_3_concentration > 7500
    THEN [concentration_level |-> "Very High", risk_rating |-> "High Risk"]
    ELSE IF top_3_concentration > 5000
    THEN [concentration_level |-> "High", risk_rating |-> "Moderate-High Risk"]
    ELSE IF top_3_concentration > 3000
    THEN [concentration_level |-> "Moderate", risk_rating |-> "Moderate Risk"]
    ELSE [concentration_level |-> "Low", risk_rating |-> "Low Risk"]

\* hhi and effective_holdings are fractions: with w = weight / 100 / 100 basis
\* points, sum(w ** 2) * 10000 = SumSquares / 10000 and 1 / sum(w ** 2) =
\* 100000000 / SumSquares.  1 / 0.0 raises ZeroDivisionError.
analyze_concentration_risk(portfolio) ==
    LET holdings == portfolio.family_holdings
        weights == [i \in 1..Len(holdings) |-> holdings[i].weight]
        sorted_holdings == SortByWeight(<<>>, holdings)
        top_3_concentration == TopConcentration(sorted_holdings, 3)
        level == ConcentrationLevel(top_3_concentration)
    IN  IF Len(weights) > 0 /\ SumSquares(weights) = 0 THEN Raise
        ELSE [hhi |-> [num |-> SumSquares(weights), den |-> 10000],
              top_1_concentration |-> TopConcentration(sorted_holdings, 1),
              top_3_concentration |-> top_3_concentration,
              top_5_concentration |-> TopConcentration(sorted_holdings, 5),
              concentration_level |-> level.concentration_level,
              risk_rating |-> level.risk_rating,
              effective_holdings |->
                  IF Len(weights) > 0
                  THEN [num |-> 100000000, den |-> SumSquares(weights)]
                  ELSE [num |-> 0, den |-> 1]]

\* Daily returns of each symbol with history (percent), three trading days.
DailyReturns ==
    [s \in Symbols |->
        CASE s = "RELIANCE" -> <<0 - 2, 1, 3>>
          [] s = "TCS"      -> <<1, 0 - 1, 0>>
          [] OTHER          -> <<0 - 3, 2, 1>>]

\* returns_matrix.dot(weights): one portfolio return per day (weights in
\* basis points of percent, so the result is scaled by 10000 * 100).
PortfolioReturns(available) ==
    [d \in 1..3 |->
        SumSeq([i \in 1..Len(available) |->
                   available[i].weight * DailyReturns[available[i].symbol][d]])]

\* risk_contributions is kept as the holdings it covers; their order and the
\* contribution figures depend on the covariance matrix and are left out.
analyze_portfolio_risk(portfolio, confidence_level, mkt) ==
    LET all_symbols == FamilySymbols(portfolio)
        corr_matrix == calculate_correlation_matrix(all_symbols, mkt)
        has(h) == h.symbol \in mkt.hist
        available == SelectSeq(portfolio.family_holdings, has)
        portfolio_returns == PortfolioReturns(available)
        concentration == analyze_concentration_risk(portfolio)
    IN  IF available = <<>>
        THEN [correlation_matrix |-> corr_matrix, var |-> None, cvar |-> None,
              risk_contributions |-> {}, concentration_risk |-> EmptyDict]
        ELSE IF concentration = Raise THEN Raise
        ELSE [correlation_matrix |-> corr_matrix,
              var |-> calculate_var(portfolio_returns, confidence_level),
              cvar |-> calculate_cvar(portfolio_returns, confidence_level),
              risk_contributions |->
                  {[symbol |-> available[i].symbol, weight |-> available[i].weight]
                   : i \in 1..Len(available)},
              concentration_risk |-> concentration]

HoldingSymbols ==
    <<"RELIANCE", "TCS", "HDFCBANK", "INFY", "ICICIBANK", "SBIN", "WIPRO", "AXISBANK">>

\* family_holdings maps handed to analyze_concentration_risk on its own: up
\* to MaxHoldings holdings whose weights do not exceed 100% together.
ConcentrationCalls(maxHoldings) ==
    UNION {{[fn |-> "analyze_concentration_risk",
             portfolio |-> [family_holdings |->
                 [i \in 1..n |-> [symbol |-> HoldingSymbols[i], weight |-> w[i]]]]]
            : w \in {v \in [1..n -> WeightPctSet] : SumSeq(v) <= 10000}}
           : n \in 0..maxHoldings}

RiskMarkets ==
    Markets({{}, {"TCS"}, Symbols}, {{}, Symbols}, {2500}, {11000}, {30})

InitRisk ==
    \/ /\ call \in VarCalls \cup ConcentrationCalls(MaxHoldings)
       /\ json_input = SampleInput
       /\ market = SampleMarket
       /\ portfolio_data = None
       /\ out = None
       /\ AppStarted
       /\ ChatConstructed(FALSE)
    \/ InitWith(PortfolioInputs(MaxMembers, MaxEntries), RiskMarkets)

AnalyzeConcentrationRisk ==
    /\ out = None
    /\ \E portfolio \in
            IF call # None
            THEN IF call.fn = "analyze_concentration_risk" THEN {call.portfolio} ELSE {}
            ELSE IF portfolio_data # None THEN {portfolio_data} ELSE {} :
          out' = [kind |-> "concentration", portfolio |-> portfolio,
                  result |-> analyze_concentration_risk(portfolio)]
    /\ UNCHANGED <<json_input, market, portfolio_data, call, appvars, chatvars>>

AnalyzePortfolioRisk ==
    /\ call = None
    /\ portfolio_data # None
    /\ out = None
    /\ out' = [kind |-> "risk", portfolio |-> portfolio_data,
               result |-> analyze_portfolio_risk(portfolio_data, 95, market)]
    /\ UNCHANGED <<json_input, market, portfolio_data, call, appvars, chatvars>>

NextRisk ==
    \/ ProcessPortfolioData
    \/ CalculateVarAndCvar
    \/ AnalyzeConcentrationRisk
    \/ AnalyzePortfolioRisk

SpecRisk == InitRisk /\ [][NextRisk]_vars

(***************************************************************************)
(* Properties of the risk analyzer (SpecRisk).                             *)
(***************************************************************************)
VarCvarCalled == out.kind = "var_cvar"

ConcentrationAnalysed == out.kind = "concentration" /\ out.result # Raise

AnalysedWeights ==
    [i \in 1..Len(out.portfolio.family_holdings) |->
        out.portfolio.family_holdings[i].weight]

\* Every holding at exactly 100 / n percent.
EquallyWeighted ==
    /\ Len(AnalysedWeights) >= 1
    /\ \A i \in DOMAIN AnalysedWeights : AnalysedWeights[i] * Len(AnalysedWeights) = 10000

\* C13: for n equally weighted holdings analyze_concentration_risk returns
\* effective_holdings = 1 / sum(w^2) (= n) and hhi = 10000 * sum(w^2)
\* (= 10000 / n); for 4 holdings at 25% that is exactly 4.0 and 2500.0.
C13_EqualWeightConcentration ==
    (ConcentrationAnalysed /\ EquallyWeighted) =>
        LET n == Len(AnalysedWeights)
            sumsq == SumSeq([i \in 1..n |-> AnalysedWeights[i] * AnalysedWeights[i]])
            r == out.result
        IN  /\ r.effective_holdings = [num |-> 100000000, den |-> sumsq]
            /\ r.hhi = [num |-> sumsq, den |-> 10000]
            /\ r.effective_holdings.num = n * r.effective_holdings.den
            /\ r.hhi.num * n = 10000 * r.hhi.den
            /\ n = 4 => /\ r.effective_holdings.num = 4 * r.effective_holdings.den
                        /\ r.hhi.num = 2500 * r.hhi.den

\* Four holdings at 25% each were analysed.
C13_Witness ==
    /\ ConcentrationAnalysed
    /\ AnalysedWeights = <<2500, 2500, 2500, 2500>>
    /\ out.result.hhi.num = 2500 * out.result.hhi.den

\* The largest sum of k of the analysed weights (of all when fewer exist).
LargestSum(k) ==
    LET n == Len(AnalysedWeights)
        m == IF k < n THEN k ELSE n
        sums == {SumSeq([i \in 1..n |-> IF i \in S THEN AnalysedWeights[i] ELSE 0])
                 : S \in {T \in SUBSET (1..n) : Cardinality(T) = m}}
    IN  CHOOSE x \in sums : \A y \in sums : y <= x

\* C14: with T the sum of the 3 largest weights (of all when fewer than 3
\* holdings exist), T > 75 gives (Very High, High Risk), 50 < T <= 75 gives
\* (High, Moderate-High Risk), 30 < T <= 50 gives (Moderate, Moderate Risk),
\* T <= 30 gives (Low, Low Risk); and top_1 <= top_3 <= top_5.
C14_ConcentrationClasses ==
    ConcentrationAnalysed =>
        LET r == out.result
            T == LargestSum(3)
            is(level, rating) == r.concentration_level = level /\ r.risk_rating = rating
        IN  /\ r.top_3_concentration = T
            /\ T > 7500 => is("Very High", "High Risk")
            /\ (5000 < T /\ T <= 7500) => is("High", "Moderate-High Risk")
            /\ (3000 < T /\ T <= 5000) => is("Moderate", "Moderate Risk")
            /\ T <= 3000 => is("Low", "Low Risk")
            /\ r.top_1_concentration <= r.top_3_concentration
            /\ r.top_3_concentration <= r.top_5_concentration

\* Five holdings not in descending order whose three largest weights come to
\* exactly 50% were rated Moderate.
C14_Witness ==
    /\ ConcentrationAnalysed
    /\ Len(AnalysedWeights) = 5
    /\ AnalysedWeights[1] < AnalysedWeights[5]
    /\ out.result.top_3_concentration = 5000
    /\ out.result.top_3_concentration < out.result.top_5_concentration
    /\ out.result.concentration_level = "Moderate"

\* C18: analyze_concentration_risk, and analyze_portfolio_risk which calls
\* it, return a result without raising for every portfolio that
\* process_portfolio_data produces (a total value of 0 included) and for an
\* empty holdings map.
C18_RiskAnalysisNeverRaises ==
    (/\ out.kind \in {"concentration", "risk"}
     /\ call = None \/ out.portfolio.family_holdings = <<>>)
        => out.result # Raise

(***************************************************************************)
(* optimize_portfolio with the solver calls it makes, and the efficient    *)
(* frontier built on it (SpecSolve).  A target return is the fraction      *)
(* num / den; current_weights = <<>> stands for current_weights=None.      *)
(***************************************************************************)
MaxPoints == 3

\* weights = np.array([1/n_assets] * n_assets), numerators over n_assets.
EqualWeightFirstOnly(n_assets) == [i \in 1..n_assets |-> IF i = 1 THEN n_assets ELSE 0]

EqualWeight(n_assets) == [i \in 1..n_assets |-> 1]

\* The equality constraint portfolio_return(x) - target_return (lines 81-85).
MeetsTarget(x, columns, target_return) ==
    \/ target_return = None
    \/ Dot(x, columns) * target_return.den = target_return.num * WeightScale

\* What the one minimize call of lines 96-104 may hand back.
SolverOutcomes(n_assets, columns, x0_nan, target_return) ==
    {r \in Minimize(n_assets, WeightBounds, x0_nan) :
        r.success => MeetsTarget(r.x, columns, target_return)}

\* Every run of optimize_portfolio: the results of the minimize calls it
\* made, in order, and what it returned (or Raise).
optimize_portfolio_run(symbols, current_weights, target_return, method, mkt) ==
    LET rc == get_returns_and_cov(symbols, mkt)
        n_assets == Len(symbols)
        x0_nan == /\ Len(current_weights) > 0
                  /\ SumSeq([i \in 1..Len(current_weights) |->
                                current_weights[i].weight]) = 0
    IN  IF rc = None THEN {[solver_calls |-> <<>>, returned |-> None]}
        ELSE IF method = "equal_weight"
        THEN IF Len(rc.columns) # n_assets
             THEN {[solver_calls |-> <<>>, returned |-> Raise]}
             ELSE {[solver_calls |-> <<>>,
                    returned |->
                        [kind |-> "Optimized",
                         weights |-> ZipWeights(symbols, EqualWeight(n_assets)),
                         den |-> n_assets,
                         expected_return |-> Dot(EqualWeight(n_assets), rc.columns)]]}
        ELSE IF method \notin {"max_sharpe", "target_return", "min_volatility"}
        THEN {[solver_calls |-> <<>>, returned |-> None]}
        ELSE IF Len(rc.columns) # n_assets
        THEN \* the objective raises inside the first minimize call
             {[solver_calls |-> <<[success |-> FALSE, x |-> <<>>]>>, returned |-> Raise]}
        ELSE {[solver_calls |-> <<r>>, returned |-> OptimizeReturn(symbols, rc, r)]
              : r \in SolverOutcomes(n_assets, rc.columns, x0_nan, target_return)}

\* optimize_family_portfolio, keeping the run of optimize_portfolio.
OptimizePortfolio ==
    /\ portfolio_data # None
    /\ out = None
    /\ \E method \in Methods :
          LET all_symbols == FamilySymbols(portfolio_data)
              fh == portfolio_data.family_holdings
              current_weights == [i \in 1..Len(fh) |->
                                     [symbol |-> fh[i].symbol, weight |-> fh[i].weight]]
          IN  \E run \in optimize_portfolio_run(all_symbols, current_weights, None,
                                                method, market) :
                 out' = [kind |-> "optimize_portfolio", method |-> method,
                         symbols |-> all_symbols, run |-> run,
                         result |-> FamilyResult(portfolio_data, run.returned, market)]
    /\ UNCHANGED <<json_input, market, portfolio_data, call, appvars, chatvars>>

\* np.linspace(min_ret, max_ret, n_points)
Linspace(min_ret, max_ret, n_points) ==
    [i \in 1..n_points |->
        IF n_points = 1 THEN [num |-> min_ret, den |-> 1]
        ELSE [num |-> min_ret * (n_points - 1) + (max_ret - min_ret) * (i - 1),
              den |-> n_points - 1]]

EmptyFrontier == [returns |-> <<>>, volatility |-> <<>>, sharpe |-> <<>>]

\* Lines 136-146 without the else branch.
AppendPointDropFailed(frontier, target_ret, result, mkt) ==
    IF result # None
    THEN [returns |-> Append(frontier.returns,
                             [num |-> result.expected_return, den |-> result.den]),
          volatility |-> Append(frontier.volatility, mkt.volatility),
          sharpe |-> Append(frontier.sharpe, mkt.sharpe_ratio)]
    ELSE frontier

\* Lines 136-146: the volatility and Sharpe ratio of an optimized portfolio
\* are defined numbers (the market's figures stand for them).
AppendPoint(frontier, target_ret, result, mkt) ==
    IF result # None
    THEN [returns |-> Append(frontier.returns,
                             [num |-> result.expected_return, den |-> result.den]),
          volatility |-> Append(frontier.volatility, mkt.volatility),
          sharpe |-> Append(frontier.sharpe, mkt.sharpe_ratio)]
    ELSE [returns |-> Append(frontier.returns, target_ret),
          volatility |-> Append(frontier.volatility, NaN),
          sharpe |-> Append(frontier.sharpe, NaN)]

\* The loop of lines 135-146 over the targets: every frontier it can build,
\* with one trace entry per target tried; a raise ends the loop.
RECURSIVE FrontierLoop(_, _, _)
FrontierLoop(symbols, targets, mkt) ==
    IF targets = <<>> THEN {[result |-> EmptyFrontier, trace |-> <<>>]}
    ELSE LET target_ret == targets[Len(targets)]
             entry(run) == [target |-> target_ret,
                            solver_calls |-> Len(run.solver_calls),
                            success |-> run.returned # None /\ run.returned # Raise]
             step(f, run) ==
                 [result |-> IF run.returned = Raise THEN Raise
                             ELSE AppendPoint(f.result, target_ret, run.returned, mkt),
                  trace |-> Append(f.trace, entry(run))]
         IN  UNION {IF f.result = Raise THEN {f}
                    ELSE {step(f, run) :
                            run \in optimize_portfolio_run(symbols, <<>>, target_ret,
                                                           "max_sharpe", mkt)}
                    : f \in FrontierLoop(symbols, SubSeq(targets, 1, Len(targets) - 1),
                                         mkt)}

generate_efficient_frontier(symbols, n_points, mkt) ==
    LET rc == get_returns_and_cov(symbols, mkt)
    IN  IF rc = None THEN {[result |-> None, trace |-> <<>>]}
        ELSE LET mus == {Mu[rc.columns[i]] : i \in 1..Len(rc.columns)}
                 min_ret == CHOOSE m \in mus : \A o \in mus : m <= o
                 max_ret == CHOOSE m \in mus : \A o \in mus : o <= m
             IN  FrontierLoop(symbols, Linspace(min_ret, max_ret, n_points), mkt)

GenerateEfficientFrontier ==
    /\ portfolio_data # None
    /\ out = None
    /\ \E n_points \in 0..MaxPoints :
          \E f \in generate_efficient_frontier(FamilySymbols(portfolio_data),
                                               n_points, market) :
             out' = [kind |-> "frontier", symbols |-> FamilySymbols(portfolio_data),
                     n_points |-> n_points, result |-> f.result, trace |-> f.trace]
    /\ UNCHANGED <<json_input, market, portfolio_data, call, appvars, chatvars>>

NextSolve ==
    \/ ProcessPortfolioData
    \/ OptimizePortfolio
    \/ GenerateEfficientFrontier

SpecSolve == InitOpt /\ [][NextSolve]_vars

(***************************************************************************)
(* Properties of optimize_portfolio and the efficient frontier (SpecSolve).*)
(***************************************************************************)
PortfolioOptimized == out.kind = "optimize_portfolio"

HistoryResolves(symbols) == Range(symbols) \subseteq market.hist

\* C15: optimize_portfolio with method equal_weight on n symbols with
\* resolvable history returns weight exactly 1 / n for every requested
\* symbol, without invoking the solver.
C15_EqualWeightExact ==
    (PortfolioOptimized /\ out.method = "equal_weight" /\ HistoryResolves(out.symbols)) =>
        LET n == Len(out.symbols)
            r == out.run.returned
        IN  /\ out.run.solver_calls = <<>>
            /\ r # None /\ r # Raise
            /\ Len(r.weights) = n
            /\ \A i \in 1..n :
                  /\ r.weights[i].symbol = out.symbols[i]
                  /\ r.weights[i].weight * n = r.den

\* Three symbols were given a third each.
C15_Witness ==
    /\ PortfolioOptimized
    /\ out.method = "equal_weight"
    /\ Len(out.symbols) = 3
    /\ out.run.returned # None /\ out.run.returned # Raise
    /\ \A i \in 1..3 : out.run.returned.weights[i].weight * 3 = out.run.returned.den

\* The one solver call ended without convergence and handed back its last
\* iterate.
NonConvergence ==
    /\ PortfolioOptimized
    /\ Len(out.run.solver_calls) = 1
    /\ ~out.run.solver_calls[1].success
    /\ Len(out.run.solver_calls[1].x) = Len(out.symbols)

\* C16: optimize_portfolio invokes the solver at most once per call; when the
\* solver reports non-convergence the call returns None, without a retry and
\* without raising, and optimize_family_portfolio returns None too, with no
\* trades.
C16_SolverFailureReturnsNone ==
    PortfolioOptimized =>
        /\ Len(out.run.solver_calls) <= 1
        /\ NonConvergence => (out.run.returned = None /\ out.result = None)

\* The solver gave up on three symbols with an iterate that is not a weight
\* vector, the starting point being a defined one.
C16_Witness ==
    /\ NonConvergence
    /\ out.method = "min_volatility"
    /\ Len(out.symbols) = 3
    /\ portfolio_data.family.total_value > 0
    /\ SumSeq(out.run.solver_calls[1].x) # WeightScale
    /\ out.result = None

FrontierCalled == out.kind = "frontier"

\* The targets generate_efficient_frontier spaces between the smallest and
\* the largest mean return of the symbols.
FrontierTargets ==
    LET mus == {Mu[out.symbols[i]] : i \in 1..Len(out.symbols)}
        lowest == CHOOSE m \in mus : \A o \in mus : m <= o
        highest == CHOOSE m \in mus : \A o \in mus : o <= m
    IN  Linspace(lowest, highest, out.n_points)

SameFraction(a, b) == a.num * b.den = b.num * a.den

\* C17: when history resolves, generate_efficient_frontier makes exactly
\* n_points solve attempts and returns three lists of length n_points, the
\* i-th entry belonging to the i-th of the ascending, linearly spaced target
\* returns; a target whose solve fails stays at its position with
\* volatility = NaN and return = the target.
C17_FrontierKeepsEveryPoint ==
    (FrontierCalled /\ HistoryResolves(out.symbols)) =>
        LET f == out.result
            n == out.n_points
            t == FrontierTargets
        IN  /\ f # None /\ f # Raise
            /\ Len(f.returns) = n /\ Len(f.volatility) = n /\ Len(f.sharpe) = n
            /\ Len(out.trace) = n
            /\ SumSeq([i \in 1..Len(out.trace) |-> out.trace[i].solver_calls]) = n
            /\ \A i \in 1..n :
                  /\ out.trace[i].target = t[i]
                  /\ SameFraction(f.returns[i], t[i])
                  /\ out.trace[i].success => ~IsNaN(f.volatility[i])
                  /\ ~out.trace[i].success =>
                        (IsNaN(f.volatility[i]) /\ f.returns[i] = t[i])
            /\ \A i \in 1..(n - 1) : t[i].num <= t[i + 1].num

\* Three targets over symbols of different mean returns: the middle solve
\* failed and the two around it succeeded.
C17_Witness ==
    /\ FrontierCalled
    /\ out.n_points = 3
    /\ out.result # None /\ out.result # Raise
    /\ out.trace[1].success /\ ~out.trace[2].success /\ out.trace[3].success
    /\ IsNaN(out.result.volatility[2])
    /\ out.result.returns[1].num * out.result.returns[3].den
          < out.result.returns[3].num * out.result.returns[1].den

(***************************************************************************)
(* Missing prices in the aggregator (SpecAnalyse).                             *)
(***************************************************************************)
\* The analysis alone: one process_portfolio_data call per input and market.
NextAnalyse == ProcessPortfolioData

SpecAnalyse == Init /\ [][NextAnalyse]_vars

Unpriced(s) == market.price[s] = 0

\* What the member's priced stock entries are worth together (mills).
PricedTotal(investor) ==
    SumSeq([k \in 1..Len(investor.stocks) |->
               IF Unpriced(investor.stocks[k].symbol) THEN 0
               ELSE investor.stocks[k].quantity * Quote[investor.stocks[k].symbol]])

\* The analysis of the same input had every symbol had its price.
AllPriced == process_portfolio_data(json_input, [market EXCEPT !.price = Quote])

DefaultChanges == {0 - 20, 0, 15}

ApplyScenarioToAll ==
    /\ portfolio_data # None
    /\ out = None
    /\ \E i \in DOMAIN get_default_scenarios, d \in DefaultChanges :
          LET all_symbols == FamilySymbols(portfolio_data)
          IN  out' = [kind |-> "apply", scenario |-> get_default_scenarios[i],
                      all_symbols |-> all_symbols, default_change |-> d,
                      result |-> apply_scenario_to_all(get_default_scenarios[i],
                                                       all_symbols, d)]
    /\ UNCHANGED <<json_input, market, portfolio_data, call, appvars, chatvars>>

NextApply ==
    \/ ProcessPortfolioData
    \/ ApplyScenarioToAll

SpecApply == Init /\ [][NextApply]_vars

ScenarioApplied == out.kind = "apply"

\* C20: for a scenario that names per-symbol shocks, apply_scenario_to_all
\* gives every held symbol the scenario does not name the caller's default
\* change d, whatever d is, and leaves the named shocks as they were.
C20_UnnamedSymbolsGetDefault ==
    (ScenarioApplied /\ DOMAIN out.scenario.stock_changes # {}) =>
        /\ \A s \in Range(out.all_symbols) \ DOMAIN out.scenario.stock_changes :
              /\ s \in DOMAIN out.result.stock_changes
              /\ out.result.stock_changes[s] = out.default_change
        /\ \A s \in DOMAIN out.scenario.stock_changes :
              /\ s \in DOMAIN out.result.stock_changes
              /\ out.result.stock_changes[s] = out.scenario.stock_changes[s]

(***************************************************************************)
(* Input validation (utils/validators.py).  A JSON value carries its type; *)
(* a string is a sequence of tokens, so that the empty string is <<>>.  A  *)
(* dict holds only the keys that are present.                              *)
(***************************************************************************)
Str(tokens) == [type |-> "str", s |-> tokens]

Num(n) == [type |-> "num", n |-> n]

JsonNull == [type |-> "null"]

List(items) == [type |-> "list", items |-> items]

Absent == [type |-> "absent"]

Dict(fields) ==
    [type |-> "dict",
     v |-> [k \in {k \in DOMAIN fields : fields[k].type # "absent"} |-> fields[k]]]

\* A str that holds JSON text; json.loads gives v, or fails.
Text(parses, value) == [type |-> "text", parses |-> parses, v |-> value]

\* Python's  key in x : a key test on a dict, membership on a list, a
\* substring test on a str (no string of the model contains a key name),
\* TypeError on a number or None.
Contains(x, key) ==
    CASE x.type = "dict" -> IF key \in DOMAIN x.v THEN "yes" ELSE "no"
      [] x.type \in {"list", "str", "text"} -> "no"
      [] OTHER -> "raise"

\* validate_email: the verdict of the regular expression on the addresses
\* of the model.
ValidEmails == {<<"family@example.com">>}

validate_email(email) ==
    IF email.type # "str" THEN Raise     \* re.match on a non-string
    ELSE [kind |-> "bool", v |-> email.s \in ValidEmails]

\* float(x): the value, or ValueError / TypeError.
NumericStrings == {<<"2">>}

ToFloat(x) ==
    CASE x.type = "num" -> [ok |-> TRUE, v |-> x.n]
      [] x.type = "str" /\ x.s \in NumericStrings -> [ok |-> TRUE, v |-> 2]
      [] x.type = "str" /\ x.s = <<"nan">> -> [ok |-> TRUE, v |-> NaN]
      [] OTHER -> [ok |-> FALSE, v |-> 0]

\* Python's  not x or not isinstance(x, str)
NotAString(x) == x.type # "str" \/ x.s = <<>>

Rejected(message) == [kind |-> "validation", is_valid |-> FALSE, message |-> message]

Accepted == [kind |-> "validation", is_valid |-> TRUE, message |-> "Valid"]

Ok == [kind |-> "continue"]

MaxInvestorsAllowed == 20

MaxStocksAllowed == 50

\* Lines 80-107: one stock entry.
ValidateStock(stock) ==
    IF Contains(stock, "symbol") = "raise" THEN Raise
    ELSE IF Contains(stock, "symbol") = "no" THEN Rejected("Missing 'symbol' field")
    ELSE IF Contains(stock, "quantity") = "no" THEN Rejected("Missing 'quantity' field")
    ELSE IF NotAString(stock.v.symbol) THEN Rejected("Invalid symbol format")
    ELSE IF ~ToFloat(stock.v.quantity).ok THEN Rejected("Invalid quantity")
    ELSE IF ~IsNaN(ToFloat(stock.v.quantity).v) /\ ToFloat(stock.v.quantity).v <= 0
         THEN Rejected("Quantity must be positive")
    ELSE IF Contains(stock, "cost_basis") = "no" THEN Ok
    ELSE IF ~ToFloat(stock.v.cost_basis).ok THEN Rejected("Invalid cost_basis")
    ELSE IF ~IsNaN(ToFloat(stock.v.cost_basis).v) /\ ToFloat(stock.v.cost_basis).v < 0
         THEN Rejected("Cost basis cannot be negative")
    ELSE Ok

RECURSIVE ValidateStocks(_)
ValidateStocks(stocks) ==
    IF stocks = <<>> THEN Ok
    ELSE LET r == ValidateStock(Head(stocks))
         IN  IF r # Ok THEN r ELSE ValidateStocks(Tail(stocks))

\* Lines 48-77: one investor, up to its stocks list.
ValidateInvestor(investor, investor_ids) ==
    IF Contains(investor, "id") = "raise" THEN Raise
    ELSE IF Contains(investor, "id") = "no" THEN Rejected("Missing 'id' field")
    ELSE IF Contains(investor, "name") = "no" THEN Rejected("Missing 'name' field")
    ELSE IF Contains(investor, "stocks") = "no" THEN Rejected("Missing 'stocks' field")
    ELSE IF NotAString(investor.v.id) THEN Rejected("Invalid ID")
    ELSE IF investor.v.id.s \in investor_ids THEN Rejected("Duplicate investor ID")
    ELSE IF investor.v.stocks.type # "list" THEN Rejected("'stocks' must be a list")
    ELSE IF Len(investor.v.stocks.items) = 0 THEN Rejected("At least one stock required")
    ELSE IF Len(investor.v.stocks.items) > MaxStocksAllowed
         THEN Rejected("Maximum 50 stocks allowed")
    ELSE ValidateStocks(investor.v.stocks.items)

RECURSIVE ValidateInvestors(_, _)
ValidateInvestors(investors, investor_ids) ==
    IF investors = <<>> THEN Ok
    ELSE LET r == ValidateInvestor(Head(investors), investor_ids)
         IN  IF r # Ok THEN r
             ELSE ValidateInvestors(Tail(investors),
                                    investor_ids \cup {Head(investors).v.id.s})

validate_portfolio_json(raw) ==
    LET parsed == IF raw.type = "text" /\ raw.parses THEN raw.v ELSE raw
    IN  IF raw.type # "dict" /\ ~(raw.type = "text" /\ raw.parses)
        THEN Rejected("Invalid JSON format")
        ELSE IF Contains(parsed, "email") = "raise" THEN Raise
        ELSE IF Contains(parsed, "email") = "no" THEN Rejected("Missing 'email' field")
        ELSE IF Contains(parsed, "investor") = "no"
             THEN Rejected("Missing 'investor' field")
        ELSE IF validate_email(parsed.v.email) = Raise THEN Raise
        ELSE IF ~validate_email(parsed.v.email).v THEN Rejected("Invalid email format")
        ELSE IF parsed.v.investor.type # "list" THEN Rejected("'investor' must be a list")
        ELSE IF Len(parsed.v.investor.items) = 0 THEN Rejected("At least one investor required")
        ELSE IF Len(parsed.v.investor.items) > MaxInvestorsAllowed
             THEN Rejected("Maximum 20 family members allowed")
        ELSE LET r == ValidateInvestors(parsed.v.investor.items, {})
             IN  IF r = Ok THEN Accepted ELSE r

(***************************************************************************)
(* validate_portfolio_json called on its own (SpecValidate), on documents  *)
(* that miss fields, carry values of the wrong type or are out of range.   *)
(***************************************************************************)
ValidStock == Dict([symbol |-> Str(<<"TCS">>), quantity |-> Num(1), cost_basis |-> Absent])

RawStocks ==
    {Dict([symbol |-> sy, quantity |-> q, cost_basis |-> c])
        : sy \in {Absent, Str(<<"TCS">>), Str(<<>>), Num(5)},
          q \in {Absent, Num(1), Num(0), Num(0 - 1), Num(NaN), Str(<<"2">>),
                 Str(<<"abc">>), JsonNull},
          c \in {Absent, Num(0), Num(0 - 1), Num(NaN), Str(<<"abc">>)}}
    \cup {JsonNull}

RawStockLists ==
    {Absent, Str(<<"TCS">>), List(<<>>),
     List([k \in 1..MaxStocksAllowed |-> ValidStock]),
     List([k \in 1..(MaxStocksAllowed + 1) |-> ValidStock])}
    \cup {List(<<st>>) : st \in RawStocks}
    \cup {List(<<ValidStock, st>>) : st \in {JsonNull, Dict([symbol |-> Absent,
                                                            quantity |-> Num(1),
                                                            cost_basis |-> Absent])}}

ValidInvestor(i) ==
    Dict([id |-> Str(MemberId(i)), name |-> Str(<<"Asha">>), stocks |-> List(<<ValidStock>>)])

RawInvestors ==
    {Dict([id |-> id, name |-> nm, stocks |-> st])
        : id \in {Absent, Str(MemberId(1)), Str(MemberId(2)), Str(<<>>), Num(7)},
          nm \in {Absent, Str(<<"Asha">>)},
          st \in RawStockLists}
    \cup {JsonNull}

RawInvestorLists ==
    {Absent, Str(<<"Asha">>), List(<<>>),
     List([i \in 1..MaxInvestorsAllowed |-> ValidInvestor(i)]),
     List([i \in 1..(MaxInvestorsAllowed + 1) |-> ValidInvestor(i)])}
    \cup {List(<<a>>) : a \in RawInvestors}
    \cup {List(<<ValidInvestor(1), a>>) : a \in RawInvestors}

RawDocuments ==
    {Dict([email |-> e, investor |-> inv])
        : e \in {Absent, Str(<<"family@example.com">>), Str(<<"family.example.com">>),
                 JsonNull},
          inv \in RawInvestorLists}

RawInputs ==
    RawDocuments
    \cup {Text(TRUE, d) : d \in {Dict([email |-> Str(<<"family@example.com">>),
                                       investor |-> List(<<ValidInvestor(1)>>)]),
                                 List(<<>>), Num(5), JsonNull}}
    \cup {Text(FALSE, JsonNull), JsonNull, Num(5), List(<<>>)}

InitValidate ==
    /\ call \in {[kind |-> "validate_portfolio_json", json_input |-> raw] : raw \in RawInputs}
    /\ json_input = SampleInput
    /\ market = SampleMarket
    /\ portfolio_data = None
    /\ out = None
    /\ AppStarted
    /\ ChatConstructed(FALSE)

ValidatePortfolioJson ==
    /\ call.kind = "validate_portfolio_json"
    /\ out = None
    /\ out' = validate_portfolio_json(call.json_input)
    /\ UNCHANGED <<json_input, market, portfolio_data, call, appvars, chatvars>>

NextValidate == ValidatePortfolioJson

SpecValidate == InitValidate /\ [][NextValidate]_vars

(***************************************************************************)
(* Properties of the validator (SpecValidate).                             *)
(***************************************************************************)
Validated == call.kind = "validate_portfolio_json" /\ out # None

\* A number, or a numeric string, that is neither NaN nor below the limit.
NumberAtLeast(x, limit, strict) ==
    /\ x.type \in {"num", "str"}
    /\ ToFloat(x).ok
    /\ ~IsNaN(ToFloat(x).v)
    /\ IF strict THEN ToFloat(x).v > limit ELSE ToFloat(x).v >= limit

NonEmptyString(x) == x.type = "str" /\ x.s # <<>>

WellFormedStock(stock) ==
    /\ stock.type = "dict"
    /\ {"symbol", "quantity"} \subseteq DOMAIN stock.v
    /\ NonEmptyString(stock.v.symbol)
    /\ NumberAtLeast(stock.v.quantity, 0, TRUE)
    /\ "cost_basis" \in DOMAIN stock.v => NumberAtLeast(stock.v.cost_basis, 0, FALSE)

WellFormedInvestor(investor) ==
    /\ investor.type = "dict"
    /\ {"id", "name", "stocks"} \subseteq DOMAIN investor.v
    /\ NonEmptyString(investor.v.id)
    /\ investor.v.stocks.type = "list"
    /\ Len(investor.v.stocks.items) \in 1..MaxStocksAllowed
    /\ \A k \in DOMAIN investor.v.stocks.items : WellFormedStock(investor.v.stocks.items[k])

WellFormed(raw) ==
    LET doc == IF raw.type = "text" /\ raw.parses THEN raw.v ELSE raw
    IN  /\ doc.type = "dict"
        /\ {"email", "investor"} \subseteq DOMAIN doc.v
        /\ doc.v.email.type = "str" /\ doc.v.email.s \in ValidEmails
        /\ doc.v.investor.type = "list"
        /\ Len(doc.v.investor.items) \in 1..MaxInvestorsAllowed
        /\ \A i \in DOMAIN doc.v.investor.items : WellFormedInvestor(doc.v.investor.items[i])
        /\ \A i, j \in DOMAIN doc.v.investor.items :
              i # j => doc.v.investor.items[i].v.id.s # doc.v.investor.items[j].v.id.s

\* C23: validate_portfolio_json never raises, and returns (True, 'Valid')
\* exactly for a document with a valid email and 1 to 20 investors, each
\* with a non-empty string id unique among them, a name and 1 to 50 stocks,
\* each with a non-empty string symbol, a quantity above 0 and, if present,
\* a cost basis of at least 0; for every other document it returns False.
C23_ValidatorAcceptsExactlyWellFormed ==
    Validated =>
        /\ out # Raise
        /\ out.kind = "validation"
        /\ out.is_valid <=> WellFormed(call.json_input)
        /\ out.is_valid <=> out.message = "Valid"

(***************************************************************************)
(* The UI handlers (app.py).  Each browser session keeps the analysed      *)
(* portfolio in its own portfolio_data_state; the charts, the optimization *)
(* result and the risk data live in module globals shared by all sessions. *)
(* A figure is represented by its name and the portfolio it was drawn for. *)
(***************************************************************************)
\* json.dumps of a portfolio JSON: the document a user submits.
ToRaw(input) ==
    Dict([email |-> Str(<<input.email>>),
          investor |-> List([i \in 1..Len(input.investor) |->
              Dict([id |-> Str(input.investor[i].id),
                    name |-> Str(<<input.investor[i].name>>),
                    stocks |-> List([k \in 1..Len(input.investor[i].stocks) |->
                        Dict([symbol |-> Str(<<input.investor[i].stocks[k].symbol>>),
                              quantity |-> Num(input.investor[i].stocks[k].quantity),
                              cost_basis |-> Absent])])])])])

\* What the aggregator reads from a dict (aggregator.py lines 35-36, 67-79):
\* json_input.get('email', ''), json_input.get('investor', []),
\* investor.get(...), stock['symbol'], float(stock['quantity']).
CoreInput(raw) ==
    [email |-> IF "email" \in DOMAIN raw.v THEN raw.v.email.s[1] ELSE "",
     investor |->
         IF "investor" \notin DOMAIN raw.v THEN <<>>
         ELSE [i \in 1..Len(raw.v.investor.items) |->
                  LET investor == raw.v.investor.items[i].v
                  IN  [id |-> investor.id.s,
                       name |-> investor.name.s[1],
                       stocks |-> [k \in 1..Len(investor.stocks.items) |->
                           [symbol |-> investor.stocks.items[k].v.symbol.s[1],
                            quantity |-> ToFloat(investor.stocks.items[k].v.quantity).v]]]]]

Put(d, key, value) == [k \in DOMAIN d \cup {key} |-> IF k = key THEN value ELSE d[k]]

Figure(name, portfolio) == [figure |-> name, of |-> portfolio]

RECURSIVE PutFigures(_, _, _)
PutFigures(charts, names, portfolio) ==
    IF names = <<>> THEN charts
    ELSE PutFigures(Put(charts, Head(names), Figure(Head(names), portfolio)),
                    Tail(names), portfolio)

\* The families that use the application.
SecondInput ==
    [email |-> "family@example.com",
     investor |-> <<[id |-> MemberId(1), name |-> "Asha",
                     stocks |-> <<[symbol |-> "TCS", quantity |-> 2]>>],
                    [id |-> MemberId(2), name |-> "Ravi",
                     stocks |-> <<[symbol |-> "TCS", quantity |-> 1],
                                  [symbol |-> "HDFCBANK", quantity |-> 1]>>]>>]

ZeroQuantityDocument ==
    Dict([email |-> Str(<<"family@example.com">>),
          investor |-> List(<<Dict([id |-> Str(MemberId(1)), name |-> Str(<<"Asha">>),
                                    stocks |-> List(<<Dict([symbol |-> Str(<<"TCS">>),
                                                            quantity |-> Num(0),
                                                            cost_basis |-> Absent])>>)])>>)])

AppDocuments == {ToRaw(SampleInput), ToRaw(SecondInput), ZeroQuantityDocument}

\* process_input, lines 408-450: validate, sanitize, analyse, store.  A
\* rejected document puts None into the session's portfolio_data_state.
ProcessInput(u) ==
    \E raw \in AppDocuments :
        LET verdict == validate_portfolio_json(raw)
            result == process_portfolio_data(CoreInput(raw), market)
        IN  IF verdict # Accepted
            THEN /\ session_state' = [session_state EXCEPT ![u] = None]
                 /\ out' = [kind |-> "process_input", session |-> u, validation |-> verdict,
                            aggregated |-> Absent]
                 /\ UNCHANGED <<portfolio_state, charts_state>>
            ELSE /\ portfolio_state' = result
                 /\ charts_state' =
                        PutFigures(charts_state,
                                   <<"treemap", "member_comparison", "overlap", "risk">>,
                                   result)
                 /\ session_state' = [session_state EXCEPT ![u] = result]
                 /\ out' = [kind |-> "process_input", session |-> u, validation |-> verdict,
                            aggregated |-> raw]

ProcessInputAction ==
    /\ \E u \in Sessions : ProcessInput(u)
    /\ UNCHANGED <<json_input, market, portfolio_data, call, optimization_state,
                   risk_state, chatvars>>

\* run_optimization, lines 546-552.
method_map(method) ==
    CASE method = "Max Sharpe Ratio" -> "max_sharpe"
      [] method = "Min Volatility"   -> "min_volatility"
      [] method = "Equal Weight"     -> "equal_weight"
      [] OTHER                       -> "max_sharpe"

UiMethods == {"Max Sharpe Ratio", "Min Volatility", "Equal Weight"}

\* run_optimization, lines 538-586: nothing is stored when there is no
\* portfolio, when the optimizer returns None or when it raises; otherwise
\* the result and the three figures go into the globals.
RunOptimization(u) ==
    \E method \in UiMethods :
        \E r \in optimize_family_portfolio(session_state[u], method_map(method), market) :
            /\ out' = [kind |-> "run_optimization", session |-> u, result |-> r.result]
            /\ IF r.result = None \/ r.result = Raise
               THEN UNCHANGED <<optimization_state, charts_state>>
               ELSE /\ optimization_state' = Put(optimization_state, "result", r.result)
                    /\ charts_state' =
                           PutFigures(charts_state,
                                      <<"efficient_frontier", "weights_comparison",
                                        "rebalancing_table">>,
                                      session_state[u])

RunOptimizationAction ==
    /\ \E u \in Sessions : session_state[u] # None /\ RunOptimization(u)
    /\ UNCHANGED <<json_input, market, portfolio_data, call, session_state,
                   portfolio_state, risk_state, chatvars>>

DefaultConfidence == 95

\* run_risk_analysis, lines 674-694.
RunRiskAnalysis(u) ==
    LET risk_data == analyze_portfolio_risk(session_state[u], DefaultConfidence, market)
    IN  /\ out' = [kind |-> "run_risk_analysis", session |-> u, result |-> risk_data]
        /\ IF risk_data = Raise
           THEN UNCHANGED <<risk_state, charts_state>>
           ELSE /\ risk_state' = Put(risk_state, "data", risk_data)
                /\ charts_state' =
                       PutFigures(charts_state, <<"correlation", "risk_contribution">>,
                                  session_state[u])

RunRiskAnalysisAction ==
    /\ \E u \in Sessions : session_state[u] # None /\ RunRiskAnalysis(u)
    /\ UNCHANGED <<json_input, market, portfolio_data, call, session_state,
                   portfolio_state, optimization_state, chatvars>>

\* export_to_pdf, lines 928-949: the session's portfolio with whatever the
\* globals hold.
ExportToPdf(u) ==
    out' = [kind |-> "report", session |-> u,
            portfolio_data |-> session_state[u],
            charts_dict |-> charts_state,
            optimization_result |-> DictGet(optimization_state, "result", None),
            risk_data |-> DictGet(risk_state, "data", None)]

ExportToPdfAction ==
    /\ \E u \in Sessions : session_state[u] # None /\ ExportToPdf(u)
    /\ UNCHANGED <<json_input, market, portfolio_data, call, appvars, chatvars>>

InitApp ==
    /\ json_input = SampleInput
    /\ market = SampleMarket
    /\ portfolio_data = None
    /\ call = None
    /\ out = None
    /\ AppStarted
    /\ ChatConstructed(FALSE)

NextApp ==
    \/ ProcessInputAction
    \/ RunOptimizationAction
    \/ RunRiskAnalysisAction
    \/ ExportToPdfAction

SpecApp == InitApp /\ [][NextApp]_vars

(***************************************************************************)
(* Properties of the UI handlers (SpecApp).                                *)
(***************************************************************************)
ReportExported == out.kind = "report"

\* C21: whatever the interleaving of analyse, optimize, risk-analysis and
\* export actions of the sessions, the optimization result, the risk data
\* and the figures that export_to_pdf embeds were computed from the
\* portfolio_data the export was called with.
C21_ReportFromOnePortfolio ==
    ReportExported =>
        /\ out.optimization_result # None =>
              \E method \in UiMethods :
                 \E r \in optimize_family_portfolio(out.portfolio_data,
                                                    method_map(method), market) :
                    r.result = out.optimization_result
        /\ out.risk_data # None =>
              out.risk_data = analyze_portfolio_risk(out.portfolio_data,
                                                     DefaultConfidence, market)
        /\ \A k \in DOMAIN out.charts_dict : out.charts_dict[k].of = out.portfolio_data

(***************************************************************************)
(* What the analyses write (SpecFrame).  The holdings of the portfolio are *)
(* objects on the heap, named <<member, position>>; optimize_family_       *)
(* portfolio collects references to them and accumulates quantity and      *)
(* value per symbol into the entries of holdings_by_symbol.  The other     *)
(* three functions only read the portfolio and bind locals.                *)
(***************************************************************************)
\* optimizer.py lines 233-235: all_holdings.extend(member['holdings']).
RECURSIVE HoldingRefs(_, _)
HoldingRefs(members, i) ==
    IF i > Len(members) THEN <<>>
    ELSE [k \in 1..Len(members[i].holdings) |-> <<i, k>>] \o HoldingRefs(members, i + 1)

HeapOf(portfolio) ==
    [r \in Range(HoldingRefs(portfolio.members, 1)) |->
        portfolio.members[r[1]].holdings[r[2]]]

\* holdings_by_symbol[symbol] = h : the entry is the member's own holding.
MergeEntryAliased(r, h, n) == [ref |-> r, obj |-> h]

\* Lines 240-246: the entry of a new symbol is a new dict.
MergeEntry(r, h, n) ==
    [ref |-> <<0, n>>,
     obj |-> [symbol |-> h.symbol, quantity |-> 0, current_price |-> h.current_price,
              value |-> 0]]

\* Lines 238-248, one pass for each reference in all_holdings.
RECURSIVE MergeLoop(_, _, _)
MergeLoop(heap, holdings_by_symbol, refs) ==
    IF refs = <<>> THEN [heap |-> heap, holdings_by_symbol |-> holdings_by_symbol]
    ELSE LET h == heap[Head(refs)]
             isNew == h.symbol \notin DOMAIN holdings_by_symbol
             entry == MergeEntry(Head(refs), h, Cardinality(DOMAIN holdings_by_symbol) + 1)
             heap1 == IF isNew THEN Put(heap, entry.ref, entry.obj) ELSE heap
             by1 == IF isNew THEN Put(holdings_by_symbol, h.symbol, entry.ref)
                    ELSE holdings_by_symbol
             target == by1[h.symbol]
             heap2 == [heap1 EXCEPT ![target].quantity = @ + h.quantity]
             heap3 == [heap2 EXCEPT ![target].value = @ + heap2[Head(refs)].value]
         IN  MergeLoop(heap3, by1, Tail(refs))

\* The portfolio as it reads once optimize_family_portfolio has returned a result.
AfterOptimize(portfolio) ==
    LET refs == HoldingRefs(portfolio.members, 1)
        heap == MergeLoop(HeapOf(portfolio), EmptyDict, refs).heap
    IN  [portfolio EXCEPT !.members =
            [i \in 1..Len(portfolio.members) |->
                [portfolio.members[i] EXCEPT !.holdings =
                    [k \in 1..Len(portfolio.members[i].holdings) |-> heap[<<i, k>>]]]]]

\* merged_holdings = list(holdings_by_symbol.values()), read from the heap.
MergedOnHeap(portfolio) ==
    LET refs == HoldingRefs(portfolio.members, 1)
        done == MergeLoop(HeapOf(portfolio), EmptyDict, refs)
    IN  {[symbol |-> done.heap[done.holdings_by_symbol[sym]].symbol,
          quantity |-> done.heap[done.holdings_by_symbol[sym]].quantity,
          value |-> done.heap[done.holdings_by_symbol[sym]].value]
         : sym \in DOMAIN done.holdings_by_symbol}

\* optimize_family_portfolio returns before the merge when optimize_portfolio
\* gives None (line 222) and raises before it when the shapes disagree.
CallOptimizeFamilyPortfolio ==
    /\ portfolio_data # None
    /\ \E method \in Methods :
          \E r \in optimize_family_portfolio(portfolio_data, method, market) :
             /\ out' = r
             /\ portfolio_data' = IF r.result = None \/ r.result = Raise
                                  THEN portfolio_data
                                  ELSE AfterOptimize(portfolio_data)
    /\ UNCHANGED <<json_input, market, call, appvars, chatvars>>

\* analyze_portfolio_risk (with analyze_concentration_risk inside it).
CallAnalyzePortfolioRisk ==
    /\ portfolio_data # None
    /\ out' = [kind |-> "risk",
               result |-> analyze_portfolio_risk(portfolio_data, DefaultConfidence, market)]
    /\ UNCHANGED <<json_input, market, portfolio_data, call, appvars, chatvars>>

CallAnalyzeConcentrationRisk ==
    /\ portfolio_data # None
    /\ out' = [kind |-> "concentration",
               result |-> analyze_concentration_risk(portfolio_data)]
    /\ UNCHANGED <<json_input, market, portfolio_data, call, appvars, chatvars>>

CallSimulateScenarios ==
    /\ portfolio_data # None
    /\ out' = [kind |-> "scenarios",
               results |-> simulate_scenarios(portfolio_data, get_default_scenarios)]
    /\ UNCHANGED <<json_input, market, portfolio_data, call, appvars, chatvars>>

NextFrame ==
    \/ ProcessPortfolioData
    \/ CallOptimizeFamilyPortfolio
    \/ CallAnalyzePortfolioRisk
    \/ CallAnalyzeConcentrationRisk
    \/ CallSimulateScenarios

FrameInputs == InputsOver({e \in Entry : e.quantity = 1}, MaxMembers, MaxEntries)

InitFrame ==
    InitWith(FrameInputs,
             Markets({{}, Symbols}, {{}, {"TCS"}, Symbols}, {2500}, {11000}, {30}))

SpecFrame == InitFrame /\ [][NextFrame]_vars

\* C22: after any sequence of optimize_family_portfolio, analyze_portfolio_risk,
\* analyze_concentration_risk and simulate_scenarios calls the portfolio
\* (family, members and their holdings, overlaps, family_holdings) is what
\* process_portfolio_data returned.
C22_PortfolioUnchanged ==
    Analysed => portfolio_data = process_portfolio_data(json_input, market)

\* An optimization has merged the holdings of a symbol that two members hold.
C22_Witness ==
    /\ Analysed
    /\ out.kind = "optimization"
    /\ out.result # None /\ out.result # Raise
    /\ \E e \in MergedOnHeap(portfolio_data) : e.quantity = 2
    /\ Len(portfolio_data.overlaps) > 0

(***************************************************************************)
(* The MCP tools (mcp_server.py) and the quick-action buttons that call    *)
(* them (app.py handle_quick_action), next to the UI's process_input       *)
(* (SpecMcp).  A tool answers with its output or with {"error": ...}.      *)
(***************************************************************************)
ToolError == [kind |-> "error"]

\* json.dumps(portfolio_data): the analysis result as a JSON document.
DumpPortfolio(portfolio) ==
    [type |-> "dict",
     v |-> [k \in {"family", "members", "overlaps", "family_holdings"} |-> portfolio[k]]]

McpTools == {"analyze_portfolio", "optimize_portfolio", "analyze_risk", "run_scenario"}

\* Every answer of a tool for a document: json.loads, process_portfolio_data
\* on what was loaded, then the tool's own analysis.
CallMcpTool(tool_name, document, method, scenario) ==
    LET data == CoreInput(document)
        portfolio == process_portfolio_data(data, market)
    IN  CASE tool_name = "analyze_portfolio" ->
               {[kind |-> "analysis", family |-> portfolio.family,
                 members |-> portfolio.members, overlaps |-> portfolio.overlaps,
                 family_holdings |-> portfolio.family_holdings]}
          [] tool_name = "optimize_portfolio" ->
               {IF r.result = None \/ r.result = Raise THEN ToolError
                ELSE [kind |-> "optimization", current |-> r.result.current,
                      optimized |-> r.result.optimized, trades |-> r.result.trades]
                : r \in optimize_family_portfolio(portfolio, method, market)}
          [] tool_name = "analyze_risk" ->
               LET risk_data == analyze_portfolio_risk(portfolio, DefaultConfidence, market)
               IN  {IF risk_data = Raise THEN ToolError
                    ELSE [kind |-> "risk", concentration_risk |-> risk_data.concentration_risk,
                          var |-> risk_data.var, cvar |-> risk_data.cvar]}
          [] OTHER ->
               {[kind |-> "scenario",
                 result |-> mcp_run_scenario(data, market, scenario).results[1]]}

\* An MCP client calls a tool with a document of its own.
McpToolCall ==
    /\ \E tool_name \in McpTools, document \in AppDocuments :
          \E answer \in CallMcpTool(tool_name, document, "max_sharpe",
                                    "Market Crash (-20%)") :
             out' = [kind |-> "mcp", tool |-> tool_name, validation |-> Absent,
                     aggregated |-> document, answer |-> answer]
    /\ UNCHANGED <<json_input, market, portfolio_data, call, appvars, chatvars>>

QuickActions == {"Analyze", "Optimize", "Risk", "Scenario"}

QuickActionTool(action_name) ==
    CASE action_name = "Analyze"  -> "analyze_portfolio"
      [] action_name = "Optimize" -> "optimize_portfolio"
      [] action_name = "Risk"     -> "analyze_risk"
      [] OTHER                    -> "run_scenario"

\* handle_quick_action, lines 249-285, with the MCP server running: the
\* document sent to the tool is json.dumps(portfolio_data), the analysis
\* result of the session.
HandleQuickAction ==
    /\ \E u \in Sessions, action_name \in QuickActions :
          /\ session_state[u] # None
          /\ LET portfolio_json == DumpPortfolio(session_state[u])
             IN  \E answer \in CallMcpTool(QuickActionTool(action_name), portfolio_json,
                                           "max_sharpe", "Market Crash (-20%)") :
                    out' = [kind |-> "quick_action", session |-> u,
                            action |-> action_name, validation |-> Absent,
                            aggregated |-> portfolio_json, answer |-> answer]
    /\ UNCHANGED <<json_input, market, portfolio_data, call, appvars, chatvars>>

NextMcp ==
    \/ ProcessInputAction
    \/ McpToolCall
    \/ HandleQuickAction

SpecMcp == InitApp /\ [][NextMcp]_vars

\* The last handler ran process_portfolio_data, on out.aggregated.
Aggregated ==
    /\ out.kind \in {"process_input", "mcp", "quick_action"}
    /\ out.aggregated # Absent

\* C24: process_portfolio_data runs, from the UI handler or from an MCP
\* tool, only on an input that validate_portfolio_json accepts: no input
\* that the validator would reject reaches the aggregator.
C24_AggregatorInputValidated ==
    Aggregated =>
        \/ out.validation = Accepted
        \/ validate_portfolio_json(out.aggregated) = Accepted

\* C29: once process_input has analysed a portfolio, the quick action
\* 'Analyze' reports the member_count, unique_stocks and total_value of the
\* analysis result kept in the session.
C29_QuickAnalyzeSamePortfolio ==
    (out.kind = "quick_action" /\ out.action = "Analyze") =>
        /\ out.answer.kind = "analysis"
        /\ out.answer.family.member_count
              = session_state[out.session].family.member_count
        /\ out.answer.family.unique_stocks
              = session_state[out.session].family.unique_stocks
        /\ out.answer.family.total_value
              = session_state[out.session].family.total_value

(***************************************************************************)
(* Symbol order in the optimizer (SpecOpt).                                *)
(***************************************************************************)
\* sum over entries of weight * annualised mean return of the entry's symbol
KeyedReturn(weights) ==
    SumSeq([i \in 1..Len(weights) |-> weights[i].weight * Mu[weights[i].symbol]])

\* C25: the result of optimize_family_portfolio does not depend on the order
\* of the symbols in family_holdings: the current expected_return is the sum
\* over symbols of the symbol's weight times the annualised mean return of
\* that same symbol, and so is the optimized expected_return for the weights
\* reported under each symbol.
C25_ReturnsKeyedBySymbol ==
    FamilyOptimized =>
        /\ out.result.current.expected_return = KeyedReturn(out.result.current.weights)
        /\ out.result.optimized.expected_return = KeyedReturn(out.result.optimized.weights)

\* C26: optimize_portfolio never raises because of gaps in the market data.
\* With no history for any requested symbol it returns None; with history
\* for only some of them it returns None or a result with one weight per
\* requested symbol, whatever the method; for a method it does not know it
\* returns None.
C26_OptimizeNeverRaisesOnGaps ==
    OptimizationRun =>
        LET symbols == FamilySymbols(portfolio_data)
        IN  /\ out.optimized # Raise
            /\ Range(symbols) \cap market.hist = {} => out.optimized = None
            /\ out.method \notin {"max_sharpe", "target_return", "min_volatility",
                                  "equal_weight"} => out.optimized = None
            /\ out.optimized.kind = "Optimized" =>
                  Len(out.optimized.weights) = Len(symbols)

(***************************************************************************)
(* Defined metrics (SpecScore).                                            *)
(***************************************************************************)
MetricsDefined(metrics) ==
    /\ ~IsNaN(metrics.volatility)
    /\ ~IsNaN(metrics.expected_return)
    /\ ~IsNaN(metrics.sharpe_ratio)
    /\ ~IsNaN(metrics.beta)

\* C27: every metric calculate_portfolio_metrics returns is a defined number,
\* never NaN, also when the weights are renormalised over the symbols that
\* have history and those weights sum to 0; so the metrics of every member
\* and of the family, and family.risk_score, are defined in every result of
\* process_portfolio_data.
C27_MetricsNeverNaN ==
    Analysed =>
        /\ \A i \in DOMAIN portfolio_data.members :
              MetricsDefined(portfolio_data.members[i].metrics)
        /\ MetricsDefined(portfolio_data.family.metrics)
        /\ ~IsNaN(portfolio_data.family.risk_score)

(***************************************************************************)
(* Conservation in the aggregator (SpecAnalyse).                           *)
(***************************************************************************)
\* Quantity of symbol s over all stock entries of all members of the input.
QuantityEntered(input, s) ==
    SumSeq([i \in 1..Len(input.investor) |->
              SumSeq([k \in 1..Len(input.investor[i].stocks) |->
                        IF input.investor[i].stocks[k].symbol = s
                        THEN input.investor[i].stocks[k].quantity
                        ELSE 0])])

EnteredSymbols(input) ==
    UNION {{input.investor[i].stocks[k].symbol : k \in 1..Len(input.investor[i].stocks)}
           : i \in 1..Len(input.investor)}

\* family_holdings and family_total_value as accumulated, before rounding.
FamilyHoldingsUnrounded == TrackInvestors(<<>>, json_input.investor, market)

FamilyTotalUnrounded ==
    SumSeq([i \in 1..Len(json_input.investor) |->
              MemberTotalValue(json_input.investor[i], market)])

HistoryLimit == 10

UserMessages == {"What is my portfolio value?", "How risky is it?"}

Replies == {"It is worth 2.50.", "Moderately."}

ApiError == "api error"

Message(role, content) == [role |-> role, content |-> content]

\* The last HistoryLimit - 1 messages kept instead of the last HistoryLimit.
TruncateHistoryShort(history) ==
    IF Len(history) > HistoryLimit
    THEN SubSeq(history, Len(history) - HistoryLimit + 2, Len(history))
    ELSE history

\* Lines 138-139: conversation_history[-10:] once it is longer than 10.
TruncateHistory(history) ==
    IF Len(history) > HistoryLimit
    THEN SubSeq(history, Len(history) - HistoryLimit + 1, Len(history))
    ELSE history

\* PortfolioChat.chat: the history it leaves and how the call ended.
chat(history, configured, user_message, response) ==
    IF ~configured
    THEN [history |-> history, outcome |-> "unconfigured"]
    ELSE IF response = ApiError
    THEN [history |-> history, outcome |-> "error"]
    ELSE [history |-> TruncateHistory(history \o <<Message("user", user_message),
                                                    Message("assistant", response)>>),
          outcome |-> "answered"]

Chat ==
    \E user_message \in UserMessages, response \in Replies \cup {ApiError} :
        LET r == chat(conversation_history, is_configured, user_message, response)
        IN  /\ conversation_history' = r.history
            /\ out' = [kind |-> "chat", outcome |-> r.outcome,
                       user_message |-> user_message,
                       before |-> conversation_history]
            /\ UNCHANGED <<json_input, market, portfolio_data, call, appvars,
                           is_configured>>

ResetConversation ==
    /\ conversation_history' = <<>>
    /\ out' = [kind |-> "reset"]
    /\ UNCHANGED <<json_input, market, portfolio_data, call, appvars, is_configured>>

InitChat ==
    /\ json_input = SampleInput
    /\ market = SampleMarket
    /\ portfolio_data = None
    /\ call = None
    /\ out = None
    /\ AppStarted
    /\ \E configured \in BOOLEAN : ChatConstructed(configured)

NextChat ==
    \/ Chat
    \/ ResetConversation

SpecChat == InitChat /\ [][NextChat]_vars

(***************************************************************************)
(* Properties of the chat (SpecChat).                                      *)
(***************************************************************************)
\* C30: after any sequence of chat and reset_conversation calls the
\* conversation history holds at most 10 messages, has even length and
\* alternates user, assistant starting with a user message; a chat call that
\* finds the chat unconfigured, or whose API call fails, leaves the history
\* as it was.
C30_HistoryWellFormed ==
    /\ Len(conversation_history) <= HistoryLimit
    /\ Len(conversation_history) % 2 = 0
    /\ \A i \in DOMAIN conversation_history :
          conversation_history[i].role = IF i % 2 = 1 THEN "user" ELSE "assistant"
    /\ (out.kind = "chat" /\ out.outcome \in {"unconfigured", "error"}) =>
          conversation_history = out.before

\* A sixth exchange was answered on a full history: the oldest exchange is
\* gone and the new one is at the end.
C30_Witness ==
    /\ out.kind = "chat"
    /\ out.outcome = "answered"
    /\ Len(out.before) = HistoryLimit
    /\ Len(conversation_history) = HistoryLimit
    /\ SubSeq(conversation_history, 1, HistoryLimit - 2)
          = SubSeq(out.before, 3, HistoryLimit)
    /\ conversation_history[HistoryLimit - 1] = Message("user", out.user_message)
    /\ conversation_history[HistoryLimit].role = "assistant"
    /\ out.before[1].content # conversation_history[1].content

====
